---- MODULE Spec2Model ----
(***************************************************************************)
(* Lookahead scheduler of the web sequencer (audio/scheduler.ts) together  *)
(* with the part of the audio engine it calls (audio/engine.ts), and the   *)
(* compiler that turns a parsed program into the events (dsl/compiler.ts,  *)
(* dsl/swing.ts).                                                          *)
(*                                                                         *)
(* Time is counted in milliseconds: an event's t and dur, the audio clock  *)
(* (AudioContext.currentTime), startTime and loopDurationSec are integers  *)
(* in ms, so SCHEDULE_AHEAD_SEC = 0.2 s reads 200.                         *)
(***************************************************************************)
EXTENDS Integers, Sequences, FiniteSets, TLC

\* ------------------------------------------------------------------ constants

\* const SCHEDULE_AHEAD_SEC = 0.2 (seconds), here in ms
SCHEDULE_AHEAD_SEC == 200

\* const LOOKAHEAD_MS = 25
LOOKAHEAD_MS == 25

\* scheduleEvents: baseStartTime = ctx.currentTime + 0.1 (seconds), here in ms
BaseStartDelay == 100

\* const DEFAULT_VELOCITY = 0.8, here in hundredths
DEFAULT_VELOCITY == 80

\* const MIN_OCTAVE = 0, const MAX_OCTAVE = 9
MIN_OCTAVE == 0
MAX_OCTAVE == 9

\* ------------------------------------------------------------------ bounds

\* sessions are started, and the engine is called directly, while the playback
\* token is below this value
MaxToken == 2

\* where a session is followed to its end, sessions are started while the
\* playback token is below this value
MaxTokenToEnd == 1

\* play() calls that wait for the audio context at the same time, where the
\* host lets calls overlap
MaxPendingPlays == 2

\* nested pattern expansions the call stack of the compiler holds before the
\* engine throws its RangeError
MaxCallDepth == 4

\* the audio clock is followed up to this value (ms)
MaxClock == 300

\* ------------------------------------------------------------------ inputs

\* event.track of an event compiled outside any track (the field is absent)
NoTrack == "<none>"

\* The SynthEvents the configurations are built from: a long note at t = 0 on
\* no track, a short note on track lead, a rest, and a note that lies beyond a
\* one-bar loop.
EvLong == [t |-> 0,   dur |-> 300, kind |-> "note", track |-> NoTrack]
EvLead == [t |-> 100, dur |-> 50,  kind |-> "note", track |-> "lead"]
EvRest == [t |-> 100, dur |-> 50,  kind |-> "rest", track |-> NoTrack]
EvLate == [t |-> 300, dur |-> 50,  kind |-> "note", track |-> "lead"]
EventPool == {EvLong, EvLead, EvRest, EvLate}

\* config.events: no event, two tracks handed over out of order, a rest
\* followed by a note
EventLists == { << >>, << EvLead, EvLong >>, << EvRest, EvLate >> }

\* names the host passes to setTrackMuted / setTrackSoloed
TrackNames == {"lead"}

\* config.bpm: one bar of four beats lasts 250 ms
Bpms == {960}

\* An optional field of the configuration is the set of its values: empty when
\* the field is absent, else the one value it holds
Absent == {}
Given(optional) == CHOOSE v \in optional : TRUE

\* config.loopBars: absent, 0 or one bar
LoopBarsInputs == {Absent, {0}, {1}}

\* config.loopEnabled: absent or set (setLoopEnabled clears it at will)
LoopEnabledInputs == {Absent, {TRUE}}

\* configurations of a host that registers no listener
Configs ==
  [events : EventLists, bpm : Bpms, loopBars : LoopBarsInputs, loopEnabled : LoopEnabledInputs,
   onTransportStateChange : {FALSE}]

\* configurations of a host that registers its listener with every initScheduler
ListenerConfigs ==
  [events : EventLists, bpm : Bpms, loopBars : LoopBarsInputs, loopEnabled : LoopEnabledInputs,
   onTransportStateChange : {TRUE}]

\* configurations that leave the loop length at 0
NoLoopConfigs == { c \in Configs : c.loopBars \in {Absent, {0}} }

\* time between two firings of the interval timer: on time, or held back by the
\* host (a throttled timer) beyond the lookahead window
Delays == {LOOKAHEAD_MS, 9 * LOOKAHEAD_MS}

\* ------------------------------------------------------------------ state

VARIABLES
  scheduledEvents,        \* events to schedule, sorted by t
  nextNoteIndex,          \* 0-based index of the next event to look at
  timerID,                \* TRUE iff timerID !== null
  startTime,              \* audio clock when playback started
  playing,
  loopEnabled,
  loopDurationSec,
  loopBars,
  currentBpm,
  scheduledInCurrentLoop, \* indices scheduled in the current loop iteration
  currentLoopIteration,
  mutedTracks,
  soloedTracks,
  onTransportStateChange, \* TRUE iff a listener is registered (not null)
  \* host / engine
  clock,                  \* AudioContext.currentTime
  ctxState,               \* AudioContext.state
  pendingPlays,           \* play() calls suspended at await ensureAudioContextResumed()
  timers,                 \* interval timers the host holds (set and not cleared)
  currentPlaybackToken,   \* the engine's playback token
  activeNodes,            \* the engine's active oscillator / gain pairs, by the
                          \* token they were created under
  \* observation of the run
  sinkOnce,               \* <<index, when>> handed to scheduleNote since play / init
  sinkDup,                \* those handed to it more than once
  rejected,               \* <<index, when>> met in the window and turned down by the track filter
  modesSeen,              \* branches of scheduler() taken since play / init, and
                          \* "reinit" if initScheduler came in the middle of a session
  tickCalls,              \* the scheduleNote calls of the last step
  endedAt,                \* clock at which a tick called stop(), -1 if none did
  afterStop,              \* TRUE from a return of stop() until play() is called
  lastOp,                 \* the last transport operation that completed
  cfgLoopBars,            \* config.loopBars as handed to the last initScheduler
  listenerLog,            \* what the registered listener's host saw of the last step:
                          \* the operation called and the snapshots received
  stoppedAt,              \* the playback token the last stopPlayback() left (0 if none)
  engineLog,              \* the call the host made to the engine itself in the last
                          \* step, with the token it passed
  \* compiler
  parsed,                 \* the Program parse() returned for the host's source,
                          \* Absent while the host has parsed none
  compilerCall,           \* the call the host made to the compiler in the last step,
                          \* with what it passed and what came back
  \* editor
  sourceText,             \* the text in the editor, as its lines of words
  appState                \* the AppState the editor page keeps

vars ==
  << scheduledEvents, nextNoteIndex, timerID, startTime, playing, loopEnabled,
     loopDurationSec, loopBars, currentBpm, scheduledInCurrentLoop,
     currentLoopIteration, mutedTracks, soloedTracks, clock, ctxState,
     pendingPlays, timers, sinkOnce, sinkDup, rejected, modesSeen, tickCalls,
     endedAt, afterStop, lastOp, cfgLoopBars, onTransportStateChange, listenerLog,
     currentPlaybackToken, activeNodes, stoppedAt, engineLog, parsed, compilerCall,
     sourceText, appState >>

editorVars == << sourceText, appState >>

compilerVars == << parsed, compilerCall, editorVars >>

engineVars == << currentPlaybackToken, activeNodes, stoppedAt, engineLog >>

schedVars ==
  << scheduledEvents, loopEnabled, loopDurationSec, loopBars, currentBpm,
     mutedTracks, soloedTracks, cfgLoopBars, onTransportStateChange >>

transportVars ==
  << nextNoteIndex, timerID, startTime, playing, scheduledInCurrentLoop,
     currentLoopIteration, timers >>

obsVars == << sinkOnce, sinkDup, rejected, modesSeen, endedAt >>

\* ------------------------------------------------------------------ pure helpers

\* calculateLoopDuration(bars, bpm): bars * 4 beats of 60 / bpm seconds, in ms
calculateLoopDuration(bars, bpm) == (bars * 4 * 60000) \div bpm

\* Array.prototype.sort((a, b) => a.t - b.t) on a copy: a stable sort by t
RECURSIVE InsertByT(_, _)
InsertByT(sorted, e) ==
  IF sorted = << >> THEN << e >>
  ELSE IF sorted[Len(sorted)].t <= e.t THEN Append(sorted, e)
  ELSE Append(InsertByT(SubSeq(sorted, 1, Len(sorted) - 1), e), sorted[Len(sorted)])

RECURSIVE SortByT(_)
SortByT(s) ==
  IF s = << >> THEN << >>
  ELSE InsertByT(SortByT(SubSeq(s, 1, Len(s) - 1)), s[Len(s)])

\* (variant: an absent loopBars taken as one bar, the DSL's default)
LoopBarsDefaultOne(given) == IF given = Absent THEN 1 ELSE Given(given)

\* config.loopBars ?? 0
LoopBarsOf(given) == IF given = Absent THEN 0 ELSE Given(given)

\* config.loopEnabled ?? (loopBars > 0)
LoopEnabledOf(given, bars) == IF given = Absent THEN bars > 0 ELSE Given(given)

\* loopBars > 0 ? calculateLoopDuration(loopBars, currentBpm) : 0
LoopDurationOf(bars, bpm) == IF bars > 0 THEN calculateLoopDuration(bars, bpm) ELSE 0

\* event.track ?? 'default'
TrackOf(event) == IF event.track = NoTrack THEN "default" ELSE event.track

\* (variant: the solo set is not consulted)
ShouldPlayIgnoringSolo(event, muted, soloed) == TrackOf(event) \notin muted

\* shouldPlayEvent(event), on the mute / solo sets it reads
shouldPlayEvent(event, muted, soloed) ==
  IF soloed # {} THEN TrackOf(event) \in soloed
  ELSE TrackOf(event) \notin muted

\* (variant: the far edge of the window is not tested)
InWindowNoUpperBound(eventTime, currentTime) == eventTime >= currentTime

\* eventTime >= currentTime && eventTime < currentTime + SCHEDULE_AHEAD_SEC
\* (the test of scheduleEventIfInWindow, repeated by the next-iteration pass)
InWindow(eventTime, currentTime) ==
  eventTime >= currentTime /\ eventTime < currentTime + SCHEDULE_AHEAD_SEC

\* scheduleEventIfInWindow(event, eventTime, currentTime): the scheduleNote calls
\* it makes (none or one); it returns true iff it made one
scheduleEventIfInWindow(idx, eventTime, currentTime) ==
  IF InWindow(eventTime, currentTime)
  THEN { [idx |-> idx, when |-> eventTime, now |-> currentTime] }
  ELSE {}

\* scheduleNote(ctx, event, startTime, token) creates an oscillator unless the
\* event is a rest; the scheduler always passes the current token
CreatesNode(event) == event.kind # "rest"

\* ------------------------------------------------------------------ engine

\* The engine's state: the token, the active nodes, the token of the last stop
Engine ==
  [ token |-> currentPlaybackToken, nodes |-> activeNodes, stoppedAt |-> stoppedAt ]

SetEngine(e) ==
  /\ currentPlaybackToken' = e.token
  /\ activeNodes' = e.nodes
  /\ stoppedAt' = e.stoppedAt

\* An entry of activeNodes, the oscillator and gain node scheduleNote creates
\* for an event: known by the token it was created under, the nodes of one
\* token taken together
Node(event, noteStart, token) == [ token |-> token ]

\* (variant: the token is not compared)
scheduleNoteAnyToken(e, event, noteStart, playbackToken) ==
  IF ~CreatesNode(event) THEN e
  ELSE [e EXCEPT !.nodes = @ \cup {Node(event, noteStart, playbackToken)}]

\* scheduleNote(ctx, event, noteStart, playbackToken)
scheduleNote(e, event, noteStart, playbackToken) ==
  IF ~CreatesNode(event) THEN e
  ELSE IF playbackToken # e.token THEN e
  ELSE [e EXCEPT !.nodes = @ \cup {Node(event, noteStart, playbackToken)}]

\* stopPlayback(): a new token, every active node stopped and forgotten
stopPlayback(e) ==
  [ token |-> e.token + 1, nodes |-> {}, stoppedAt |-> e.token + 1 ]

\* scheduleEvents(events, startOffset): a new token, then scheduleNote for every
\* event from startOffset on
scheduleEvents(e, events, startOffset, now) ==
  LET token == e.token + 1
      fresh == [e EXCEPT !.token = token]
  IN  [fresh EXCEPT !.nodes = @ \cup UNION {
         scheduleNote(fresh, events[i], now + BaseStartDelay + (events[i].t - startOffset),
                      token).nodes :
           i \in { j \in 1..Len(events) : events[j].t >= startOffset } }]

\* what stop() does to the engine: engineStopPlayback() unless it returned at once
engineStop(tr, e) ==
  IF ~tr.playing /\ ~tr.timerID THEN e ELSE stopPlayback(e)

\* the scheduleNote calls of a tick, each made with getCurrentPlaybackToken()
engineDispatch(e, calls) ==
  [e EXCEPT !.nodes = @ \cup UNION {
     scheduleNote(e, scheduledEvents[c.idx + 1], c.when, e.token).nodes : c \in calls }]

\* engineLog: no direct call, or the call with the token passed and whether
\* the event passed was one that sounds
NoEngineCall == [call |-> "-", token |-> 0, sounds |-> FALSE]
EngineCall(call, token, sounds) == [call |-> call, token |-> token, sounds |-> sounds]

\* ------------------------------------------------------------------ scheduler()

\* What one walk over the events has done so far: where nextNoteIndex stands,
\* the scheduleNote calls made, the <<index, when>> the track filter turned
\* down, and scheduledInCurrentLoop
WalkFrom(idx, inLoop) == [next |-> idx, calls |-> {}, rej |-> {}, inLoop |-> inLoop]

\* the while loop of scheduleWithoutLooping, from nextNoteIndex = acc.next
RECURSIVE WalkWithoutLooping(_, _)
WalkWithoutLooping(currentTime, acc) ==
  IF acc.next >= Len(scheduledEvents) THEN acc
  ELSE
    LET idx == acc.next
        event == scheduledEvents[idx + 1]
        eventTime == startTime + event.t
    IN  IF eventTime >= currentTime + SCHEDULE_AHEAD_SEC
          THEN acc                                                   \* break
        ELSE IF eventTime < currentTime
          THEN WalkWithoutLooping(currentTime, [acc EXCEPT !.next = idx + 1])
        ELSE IF shouldPlayEvent(event, mutedTracks, soloedTracks)
          THEN WalkWithoutLooping(currentTime,
                 [acc EXCEPT !.next = idx + 1,
                             !.calls = @ \cup scheduleEventIfInWindow(idx, eventTime, currentTime)])
        ELSE WalkWithoutLooping(currentTime,
                 [acc EXCEPT !.next = idx + 1, !.rej = @ \cup {<<idx, eventTime>>}])

\* startTime + lastEvent.t + lastEvent.dur, or startTime for an empty list
EndTime ==
  IF scheduledEvents = << >> THEN startTime
  ELSE startTime + scheduledEvents[Len(scheduledEvents)].t
                 + scheduledEvents[Len(scheduledEvents)].dur

\* (variant: the index must have moved beyond the length, which it never does)
FinishedOffByOne(idx, currentTime) == idx > Len(scheduledEvents) /\ currentTime > EndTime

\* the end test of scheduleWithoutLooping: all events walked and the last one over
Finished(idx, currentTime) == idx >= Len(scheduledEvents) /\ currentTime > EndTime

\* (variant: events beyond the loop are not skipped)
PastLoopBoundaryNever(event) == FALSE

\* event.t >= loopDurationSec, the test that skips an event beyond the loop in
\* both passes of scheduleWithLooping
PastLoopBoundary(event) == event.t >= loopDurationSec

\* the while loop of scheduleWithLooping for the current iteration
RECURSIVE WalkWithLooping(_, _, _)
WalkWithLooping(currentTime, loopStartTime, acc) ==
  IF acc.next >= Len(scheduledEvents) THEN acc
  ELSE
    LET idx == acc.next
        event == scheduledEvents[idx + 1]
        eventTime == loopStartTime + event.t
        made == scheduleEventIfInWindow(idx, eventTime, currentTime)
    IN  IF PastLoopBoundary(event)
          THEN WalkWithLooping(currentTime, loopStartTime, [acc EXCEPT !.next = idx + 1])
        ELSE IF eventTime >= currentTime + SCHEDULE_AHEAD_SEC
          THEN acc                                                   \* break
        ELSE IF eventTime < currentTime
          THEN WalkWithLooping(currentTime, loopStartTime, [acc EXCEPT !.next = idx + 1])
        ELSE IF idx \in acc.inLoop
          THEN WalkWithLooping(currentTime, loopStartTime, [acc EXCEPT !.next = idx + 1])
        ELSE IF shouldPlayEvent(event, mutedTracks, soloedTracks)
          THEN WalkWithLooping(currentTime, loopStartTime,
                 [acc EXCEPT !.next = idx + 1,
                             !.calls = @ \cup made,
                             !.inLoop = IF made # {} THEN @ \cup {idx} ELSE @])
        ELSE WalkWithLooping(currentTime, loopStartTime,
                 [acc EXCEPT !.next = idx + 1, !.rej = @ \cup {<<idx, eventTime>>}])

\* the for loop of scheduleWithLooping over the next iteration: the indices of
\* the events of the next loop that fall within the lookahead window
NextLoopInWindow(currentTime, nextLoopStartTime) ==
  { i \in 0..(Len(scheduledEvents) - 1) :
      /\ ~PastLoopBoundary(scheduledEvents[i + 1])
      /\ InWindow(nextLoopStartTime + scheduledEvents[i + 1].t, currentTime) }

NextLoopCalls(currentTime, nextLoopStartTime) ==
  UNION { scheduleEventIfInWindow(i, nextLoopStartTime + scheduledEvents[i + 1].t, currentTime) :
            i \in { j \in NextLoopInWindow(currentTime, nextLoopStartTime) :
                      shouldPlayEvent(scheduledEvents[j + 1], mutedTracks, soloedTracks) } }

NextLoopRejected(currentTime, nextLoopStartTime) ==
  { <<i, nextLoopStartTime + scheduledEvents[i + 1].t>> :
      i \in { j \in NextLoopInWindow(currentTime, nextLoopStartTime) :
                ~shouldPlayEvent(scheduledEvents[j + 1], mutedTracks, soloedTracks) } }

\* loopEnabled && loopDurationSec > 0, the branch test of scheduler()
Looping == loopEnabled /\ loopDurationSec > 0

\* ------------------------------------------------------------------ transport

\* The transport fields that play(), stop() and scheduler() write
Transport ==
  [ playing |-> playing, timerID |-> timerID, timers |-> timers,
    startTime |-> startTime, nextNoteIndex |-> nextNoteIndex,
    scheduledInCurrentLoop |-> scheduledInCurrentLoop,
    currentLoopIteration |-> currentLoopIteration ]

SetTransport(tr) ==
  /\ playing' = tr.playing
  /\ timerID' = tr.timerID
  /\ timers' = tr.timers
  /\ startTime' = tr.startTime
  /\ nextNoteIndex' = tr.nextNoteIndex
  /\ scheduledInCurrentLoop' = tr.scheduledInCurrentLoop
  /\ currentLoopIteration' = tr.currentLoopIteration

\* (variant: the indices scheduled in the loop iteration are kept)
stopKeepingScheduled(tr) ==
  IF ~tr.playing /\ ~tr.timerID THEN tr
  ELSE [tr EXCEPT !.playing = FALSE,
                  !.timers = IF tr.timerID THEN @ - 1 ELSE @,
                  !.timerID = FALSE,
                  !.nextNoteIndex = 0,
                  !.currentLoopIteration = 0]

\* stop(): nothing if neither playing nor holding a timer; else clear the
\* timer, stop the engine's audio and reset the position
stop(tr) ==
  IF ~tr.playing /\ ~tr.timerID THEN tr
  ELSE [tr EXCEPT !.playing = FALSE,
                  !.timers = IF tr.timerID THEN @ - 1 ELSE @,
                  !.timerID = FALSE,
                  !.nextNoteIndex = 0,
                  !.scheduledInCurrentLoop = {},
                  !.currentLoopIteration = 0]

\* (variant: startTime is left as the previous session set it)
playKeepingStartTime(tr, now) ==
  [tr EXCEPT !.playing = TRUE,
             !.nextNoteIndex = 0,
             !.scheduledInCurrentLoop = {},
             !.currentLoopIteration = 0,
             !.timers = @ + 1,
             !.timerID = TRUE]

\* play() after await ensureAudioContextResumed(): take the clock as startTime,
\* reset the position and start a new interval timer (timerID is overwritten)
playAfterResume(tr, now) ==
  [tr EXCEPT !.startTime = now,
             !.playing = TRUE,
             !.nextNoteIndex = 0,
             !.scheduledInCurrentLoop = {},
             !.currentLoopIteration = 0,
             !.timers = @ + 1,
             !.timerID = TRUE]

\* getPlayheadPosition() for transport fields tr, loop switch enabled, clock now
getPlayheadPosition(tr, enabled, now) ==
  IF ~tr.playing THEN 0
  ELSE IF enabled /\ loopDurationSec > 0 THEN (now - tr.startTime) % loopDurationSec
  ELSE now - tr.startTime

\* getTransportState()
getTransportState(tr, enabled, now) ==
  [ playing |-> tr.playing,
    currentTime |-> getPlayheadPosition(tr, enabled, now),
    loopEnabled |-> enabled,
    loopBars |-> loopBars,
    bpm |-> currentBpm ]

\* (variant: the listener is never called)
notifyNobody(tr, enabled, now) == << >>

\* notifyTransportStateChange(): the snapshots the listener receives (one, or
\* none when no listener is registered)
notifyTransportStateChange(tr, enabled, now) ==
  IF onTransportStateChange THEN << getTransportState(tr, enabled, now) >> ELSE << >>

\* stop() notifies unless it returned at once
stopNotifications(tr, now) ==
  IF ~tr.playing /\ ~tr.timerID THEN << >>
  ELSE notifyTransportStateChange(stop(tr), loopEnabled, now)

\* the entry of listenerLog for a step: kept by a host with a listener only
Log(registered, call, snapshots) ==
  IF registered THEN [call |-> call, snapshots |-> snapshots]
  ELSE [call |-> "-", snapshots |-> << >>]

\* scheduleWithoutLooping(currentTime): the walk, then stop() at the end
schedulerWithoutLooping(currentTime) ==
  LET w == WalkWithoutLooping(currentTime, WalkFrom(nextNoteIndex, scheduledInCurrentLoop))
      moved == [Transport EXCEPT !.nextNoteIndex = w.next]
      ends == Finished(w.next, currentTime)
  IN  [ tr |-> IF ends THEN stop(moved) ELSE moved,
        notified |-> IF ends THEN stopNotifications(moved, currentTime) ELSE << >>,
        calls |-> w.calls, rej |-> w.rej, mode |-> "noloop",
        stopped |-> ends, at |-> [idx |-> w.next, iter |-> currentLoopIteration] ]

\* scheduleWithLooping(currentTime, elapsed)
schedulerWithLooping(currentTime) ==
  LET elapsed == currentTime - startTime
      loopPosition == elapsed % loopDurationSec
      newLoopIteration == elapsed \div loopDurationSec
      wrapped == newLoopIteration > currentLoopIteration
      iter == IF wrapped THEN newLoopIteration ELSE currentLoopIteration
      loopStartTime == startTime + iter * loopDurationSec
      w == WalkWithLooping(currentTime, loopStartTime,
             WalkFrom(IF wrapped THEN 0 ELSE nextNoteIndex,
                      IF wrapped THEN {} ELSE scheduledInCurrentLoop))
      ahead == loopPosition + SCHEDULE_AHEAD_SEC >= loopDurationSec
      nextLoopStartTime == loopStartTime + loopDurationSec
  IN  [ tr |-> [Transport EXCEPT !.nextNoteIndex = w.next,
                                 !.scheduledInCurrentLoop = w.inLoop,
                                 !.currentLoopIteration = iter],
        calls |-> w.calls \cup
                    (IF ahead THEN NextLoopCalls(currentTime, nextLoopStartTime) ELSE {}),
        rej |-> w.rej \cup
                    (IF ahead THEN NextLoopRejected(currentTime, nextLoopStartTime) ELSE {}),
        notified |-> << >>,
        mode |-> "loop", stopped |-> FALSE,
        at |-> [idx |-> w.next, iter |-> iter] ]

\* (variant: every tick takes the non-looping branch)
schedulerNeverLooping(currentTime) == schedulerWithoutLooping(currentTime)

\* scheduler() at audio time currentTime, while playing
scheduler(currentTime) ==
  IF Looping THEN schedulerWithLooping(currentTime)
  ELSE schedulerWithoutLooping(currentTime)

\* ------------------------------------------------------------------ compiler

\* The compiler's context holds, besides the fields of CompilerContext, the
\* number of compilePatternUse calls on the call stack (stack).
\* Compiled times are in ms like the scheduler's; a velocity, a gain and a swing
\* amount are in hundredths (0.8 reads 80), the times of an ADSR envelope in ms
\* and its sustain level in thousandths. The text of a duration, "n/d", is held
\* as its two numerals and the text of a pitch as its note name, accidental and
\* octave. An event's freq follows from its midi and is left out.

\* parseDuration(str) on the two numerals of the text: the message of the Error
\* it throws, "" if it returns
parseDuration(duration) ==
  IF duration.numerator <= 0
    THEN "Invalid duration: numerator must be positive, got " \o ToString(duration.numerator)
  ELSE IF duration.denominator <= 0
    THEN "Invalid duration: denominator must be positive, got "
           \o ToString(duration.denominator)
  ELSE ""

\* parsePitch(str) on the note name, accidental and octave numeral of the text:
\* the message of the Error it throws, "" if it returns
parsePitch(pitch) ==
  IF pitch.octave < MIN_OCTAVE \/ pitch.octave > MAX_OCTAVE
    THEN "Invalid pitch: octave " \o ToString(pitch.octave) \o " out of range ("
           \o ToString(MIN_OCTAVE) \o "-" \o ToString(MAX_OCTAVE) \o ")"
  ELSE ""

\* parseDurationToSeconds(str, bpm): (numerator / denominator) * 4 * (60 / bpm)
parseDurationToSeconds(duration, bpm) ==
  (duration.numerator * 4 * 60000) \div (duration.denominator * bpm)

\* const NOTE_SEMITONES
NOTE_SEMITONES ==
  [ noteName \in {"C", "D", "E", "F", "G", "A", "B"} |->
      CASE noteName = "C" -> 0 [] noteName = "D" -> 2 [] noteName = "E" -> 4
        [] noteName = "F" -> 5 [] noteName = "G" -> 7 [] noteName = "A" -> 9
        [] noteName = "B" -> 11 ]

\* pitchToMidi(pitch)
pitchToMidi(pitch) ==
  12 * (pitch.octave + 1) + NOTE_SEMITONES[pitch.noteName]
    + (CASE pitch.accidental = "#" -> 1 [] pitch.accidental = "b" -> -1 [] OTHER -> 0)

\* const DEFAULT_ADSR
DEFAULT_ADSR == [attack |-> 5, decay |-> 50, sustain |-> 700, release |-> 80]

\* value ?? fallback on an optional field
OrElse(optional, fallback) == IF optional = Absent THEN fallback ELSE Given(optional)

\* buildADSR(instrument)
buildADSR(instrument) ==
  LET adsr == Given(instrument.adsr)
  IN  [ attack  |-> OrElse(adsr.attack, DEFAULT_ADSR.attack),
        decay   |-> OrElse(adsr.decay, DEFAULT_ADSR.decay),
        sustain |-> OrElse(adsr.sustain, DEFAULT_ADSR.sustain),
        release |-> OrElse(adsr.release, DEFAULT_ADSR.release) ]

\* What a compile function hands back: the events array after its pushes, the
\* end time it returns, and the message of the Error it threw ("" if none)
Emitted(events, time) == [events |-> events, time |-> time, error |-> ""]
Thrown(events, time, error) == [events |-> events, time |-> time, error |-> error]

\* the SynthEvent compileNote and compileChord build for one pitch
NoteEvent(pitch, velocity, duration, currentTime, instrument, trackName) ==
  [ t |-> currentTime, dur |-> duration, kind |-> "note",
    midi |-> {pitchToMidi(pitch)},
    vel |-> OrElse(velocity, DEFAULT_VELOCITY),
    inst |-> instrument.name, waveform |-> instrument.waveform,
    track |-> trackName,
    gain |-> instrument.gain,
    adsr |-> IF instrument.adsr # Absent THEN {buildADSR(instrument)} ELSE Absent ]

\* the SynthEvent compileRest builds
RestEvent(duration, currentTime, instrument, trackName) ==
  [ t |-> currentTime, dur |-> duration, kind |-> "rest",
    midi |-> Absent, vel |-> 0,
    inst |-> instrument.name, waveform |-> instrument.waveform,
    track |-> trackName,
    gain |-> Absent, adsr |-> Absent ]

\* compileNote(note, currentTime, instrument, trackName, events, context)
compileNote(note, currentTime, instrument, trackName, events, context) ==
  LET duration == parseDurationToSeconds(note.duration, context.bpm)
  IN  IF parseDuration(note.duration) # ""
        THEN Thrown(events, currentTime, parseDuration(note.duration))
      ELSE IF parsePitch(note.pitch) # ""
        THEN Thrown(events, currentTime, parsePitch(note.pitch))
      ELSE Emitted(Append(events, NoteEvent(note.pitch, note.velocity, duration, currentTime,
                                            instrument, trackName)),
                   currentTime + duration)

\* (variant: a rest leaves the cursor where it was)
compileRestInPlace(rest, currentTime, instrument, trackName, events, context) ==
  LET duration == parseDurationToSeconds(rest.duration, context.bpm)
  IN  Emitted(Append(events, RestEvent(duration, currentTime, instrument, trackName)),
              currentTime)

\* compileRest(rest, currentTime, instrument, trackName, events, context)
compileRest(rest, currentTime, instrument, trackName, events, context) ==
  LET duration == parseDurationToSeconds(rest.duration, context.bpm)
  IN  IF parseDuration(rest.duration) # ""
        THEN Thrown(events, currentTime, parseDuration(rest.duration))
      ELSE Emitted(Append(events, RestEvent(duration, currentTime, instrument, trackName)),
                   currentTime + duration)

\* (variant: every pitch of the chord starts where the one before it ended)
compileChordInTurn(chord, currentTime, instrument, trackName, events, context) ==
  LET duration == parseDurationToSeconds(chord.duration, context.bpm)
      k == Len(chord.pitches)
  IN  Emitted(events \o [ i \in 1..k |->
                NoteEvent(chord.pitches[i], chord.velocity, duration,
                          currentTime + (i - 1) * duration, instrument, trackName) ],
              currentTime + k * duration)

\* compileChord(chord, currentTime, instrument, trackName, events, context)
compileChord(chord, currentTime, instrument, trackName, events, context) ==
  LET duration == parseDurationToSeconds(chord.duration, context.bpm)
      \* the pitches parsePitch throws on; the loop ends at the first of them
      invalid == { i \in 1..Len(chord.pitches) : parsePitch(chord.pitches[i]) # "" }
      pushed == IF invalid = {} THEN Len(chord.pitches)
                ELSE (CHOOSE i \in invalid : \A j \in invalid : i <= j) - 1
      after == events \o [ i \in 1..pushed |->
                 NoteEvent(chord.pitches[i], chord.velocity, duration, currentTime,
                           instrument, trackName) ]
  IN  IF parseDuration(chord.duration) # ""
        THEN Thrown(events, currentTime, parseDuration(chord.duration))
      ELSE IF invalid # {}
        THEN Thrown(after, currentTime, parsePitch(chord.pitches[pushed + 1]))
      ELSE Emitted(after, currentTime + duration)

\* Array.from(map.keys()) of the Map that indexes the definitions by name: each
\* name once, in the order in which the names were first set
RECURSIVE KeysOf(_)
KeysOf(defs) ==
  IF defs = << >> THEN << >>
  ELSE LET before == KeysOf(SubSeq(defs, 1, Len(defs) - 1))
           name == defs[Len(defs)].name
       IN  IF \E i \in 1..Len(before) : before[i] = name THEN before
           ELSE Append(before, name)

\* names.join(', ')
RECURSIVE JoinNames(_)
JoinNames(names) ==
  IF names = << >> THEN ""
  ELSE IF Len(names) = 1 THEN names[1]
  ELSE names[1] \o ", " \o JoinNames(Tail(names))

\* the message of the RangeError the engine throws when the call stack is full
StackExhausted == "Maximum call stack size exceeded"

\* context.patterns.get(name): the last definition of that name, if any
PatternNamed(context, name) ==
  LET defs == { i \in 1..Len(context.patterns) : context.patterns[i].name = name }
  IN  IF defs = {} THEN Absent
      ELSE {context.patterns[CHOOSE i \in defs : \A j \in defs : j <= i]}

\* context.instruments.get(name): the last definition of that name, if any
InstrumentNamed(context, name) ==
  LET defs == { i \in 1..Len(context.instruments) : context.instruments[i].name = name }
  IN  IF defs = {} THEN Absent
      ELSE {context.instruments[CHOOSE i \in defs : \A j \in defs : j <= i]}

RECURSIVE compileSequenceItems(_, _, _, _, _, _)
RECURSIVE compileSequenceItem(_, _, _, _, _, _)
RECURSIVE compileTimes(_, _, _, _, _, _, _)

\* the for loop of compileRepeatBlock and compilePatternUse: items compiled
\* count times, each time from where the time before it ended
compileTimes(count, items, time, instrument, trackName, context, events) ==
  IF count <= 0 THEN Emitted(events, time)
  ELSE CHOOSE result \in
         { IF once.error # "" THEN once
           ELSE compileTimes(count - 1, items, once.time, instrument, trackName, context,
                             once.events) :
           once \in {compileSequenceItems(items, time, instrument, trackName, context,
                                          events)} } : TRUE

\* (variant: the body is compiled once whatever the count)
compileRepeatBlockOnce(repeat, currentTime, instrument, trackName, context, events) ==
  compileTimes(1, repeat.items, currentTime, instrument, trackName, context, events)

\* compileRepeatBlock(repeat, currentTime, instrument, trackName, context, events)
compileRepeatBlock(repeat, currentTime, instrument, trackName, context, events) ==
  compileTimes(repeat.count, repeat.items, currentTime, instrument, trackName, context, events)

\* compilePatternUse(patternUse, currentTime, instrument, trackName, context, events)
compilePatternUse(patternUse, currentTime, instrument, trackName, context, events) ==
  LET pattern == PatternNamed(context, patternUse.name)
      availablePatterns == KeysOf(context.patterns)
      suggestion == IF Len(availablePatterns) > 0
                      THEN "Available patterns: " \o JoinNames(availablePatterns)
                    ELSE "No patterns defined. Define a pattern with: pattern <name>: <notes>"
  IN  IF context.stack >= MaxCallDepth
        THEN Thrown(events, currentTime, StackExhausted)
      ELSE IF pattern = Absent
        THEN Thrown(events, currentTime,
                    "Pattern '" \o patternUse.name \o "' is not defined. " \o suggestion)
      ELSE compileTimes(patternUse.repetitions, Given(pattern).items, currentTime, instrument,
                        trackName, [context EXCEPT !.stack = @ + 1], events)

\* compileSequenceItem(item, currentTime, instrument, trackName, context, events)
compileSequenceItem(item, currentTime, instrument, trackName, context, events) ==
  CASE item.type = "note" ->
         compileNote(item, currentTime, instrument, trackName, events, context)
    [] item.type = "rest" ->
         compileRest(item, currentTime, instrument, trackName, events, context)
    [] item.type = "chord" ->
         compileChord(item, currentTime, instrument, trackName, events, context)
    [] item.type = "repeat" ->
         compileRepeatBlock(item, currentTime, instrument, trackName, context, events)
    [] item.type = "patternUse" ->
         compilePatternUse(item, currentTime, instrument, trackName, context, events)
    [] OTHER -> Thrown(events, currentTime, "Unknown sequence item type: " \o item.type)

\* compileSequenceItems(items, startTime, instrument, trackName, context, events)
compileSequenceItems(items, fromTime, instrument, trackName, context, events) ==
  IF items = << >> THEN Emitted(events, fromTime)
  ELSE CHOOSE result \in
         { IF first.error # "" THEN first
           ELSE compileSequenceItems(Tail(items), first.time, instrument, trackName, context,
                                     first.events) :
           first \in {compileSequenceItem(Head(items), fromTime, instrument, trackName,
                                          context, events)} } : TRUE

\* the loop of compile() over ast.tracks, from the i-th track on
RECURSIVE compileTracks(_, _, _, _)
compileTracks(tracks, i, context, events) ==
  IF i > Len(tracks) THEN Emitted(events, 0)
  ELSE LET inst == InstrumentNamed(context, tracks[i].instrumentName)
           availableInstruments == KeysOf(context.instruments)
           suggestion ==
             IF Len(availableInstruments) > 0
               THEN "Available instruments: " \o JoinNames(availableInstruments)
             ELSE "No instruments defined. Add an instrument with: inst <name> <waveform>"
       IN  IF inst = Absent
             THEN Thrown(events, 0,
                         "Track '" \o tracks[i].name \o "' references undefined instrument '"
                           \o tracks[i].instrumentName \o "'. " \o suggestion)
           ELSE CHOOSE result \in
                  { IF walked.error # "" THEN walked
                    ELSE compileTracks(tracks, i + 1, context, walked.events) :
                    walked \in {compileSequenceItems(tracks[i].items, 0, Given(inst),
                                                     tracks[i].name, context, events)} } : TRUE

\* compile(ast): the main sequence, then the tracks, then the sort by start time
compile(ast) ==
  LET context == [ bpm |-> ast.bpm, patterns |-> ast.patterns,
                   instruments |-> ast.instruments, defaultInstrument |-> ast.instrument,
                   stack |-> 0 ]
  IN  CHOOSE result \in
        { IF all.error # "" THEN all ELSE Emitted(SortByT(all.events), 0) :
          all \in { IF main.error # "" THEN main
                    ELSE compileTracks(ast.tracks, 1, context, main.events) :
                    main \in { IF ast.sequence = Absent THEN Emitted(<< >>, 0)
                               ELSE compileSequenceItems(Given(ast.sequence), 0,
                                                         ast.instrument, NoTrack, context,
                                                         << >>) } } } : TRUE

\* subdivisionDuration of applySwing: (60 / bpm) * (4 / grid), in ms
subdivisionDuration(grid, bpm) == (60000 * 4) \div (bpm * grid)

\* Math.round(event.t / subdivisionDuration)
subdivisionIndex(t, s) == (2 * t + s) \div (2 * s)

\* isOnGrid: Math.abs(event.t - gridAlignedTime) < subdivisionDuration * 0.001
isOnGrid(t, s) ==
  LET gridAlignedTime == subdivisionIndex(t, s) * s
      distance == IF t >= gridAlignedTime THEN t - gridAlignedTime ELSE gridAlignedTime - t
  IN  1000 * distance < s

\* isOffBeat: subdivisionIndex % 2 === 1
isOffBeat(t, s) == subdivisionIndex(t, s) % 2 = 1

\* the event applySwing's map returns for one event
Swung(event, swing, s) ==
  LET swingDelay == (swing * s) \div 100
      newTime == IF event.t + swingDelay > 0 THEN event.t + swingDelay ELSE 0
  IN  IF isOnGrid(event.t, s) /\ isOffBeat(event.t, s) THEN [event EXCEPT !.t = newTime]
      ELSE event

\* (variant: the transformed events are returned as mapped, not sorted again)
applySwingUnsorted(events, swing, grid, bpm) ==
  IF swing = 0 THEN events
  ELSE [ i \in 1..Len(events) |-> Swung(events[i], swing, subdivisionDuration(grid, bpm)) ]

\* (variant: events on even grid lines are delayed as well)
applySwingEveryBeat(events, swing, grid, bpm) ==
  IF swing = 0 THEN events
  ELSE LET s == subdivisionDuration(grid, bpm)
       IN  SortByT([ i \in 1..Len(events) |->
                     IF isOnGrid(events[i].t, s)
                       THEN [events[i] EXCEPT !.t = @ + (swing * s) \div 100]
                     ELSE events[i] ])

\* applySwing(events, swing, grid, bpm)
applySwing(events, swing, grid, bpm) ==
  IF swing = 0 THEN events
  ELSE SortByT([ i \in 1..Len(events) |->
                 Swung(events[i], swing, subdivisionDuration(grid, bpm)) ])

\* calculateTotalDuration(events)
calculateTotalDuration(events) ==
  IF events = << >> THEN 0
  ELSE LET ends == { events[i].t + events[i].dur : i \in 1..Len(events) } \cup {0}
       IN  CHOOSE m \in ends : \A e \in ends : e <= m

\* compileFromSource(source), from the AST parse() returns for the source: the
\* CompilationResult, or the Error thrown
compileFromSource(program) ==
  CHOOSE result \in
    { IF compiled.error # "" THEN [ error |-> compiled.error, events |-> << >> ]
      ELSE CHOOSE finished \in
             { [ error |-> "",
                 bpm |-> program.bpm,
                 totalDuration |-> calculateTotalDuration(events),
                 eventCount |-> Len(events),
                 events |-> events,
                 globalSettings |-> program.globalSettings ] :
               events \in { IF program.globalSettings.swing > 0
                              THEN applySwing(compiled.events, program.globalSettings.swing,
                                              program.globalSettings.grid, program.bpm)
                            ELSE compiled.events } } : TRUE :
      compiled \in {compile(program)} } : TRUE

\* ------------------------------------------------------------------ programs

\* items as parseSequenceItems builds them
Duration(n, d) == [numerator |-> n, denominator |-> d]
Pitch(noteName, accidental, octave) ==
  [noteName |-> noteName, accidental |-> accidental, octave |-> octave]
NoteNode(pitch, duration) ==
  [type |-> "note", pitch |-> pitch, duration |-> duration, velocity |-> Absent]
RestNode(duration) == [type |-> "rest", duration |-> duration]
ChordNode(pitches, duration) ==
  [type |-> "chord", pitches |-> pitches, duration |-> duration, velocity |-> Absent]
RepeatBlock(count, items) == [type |-> "repeat", count |-> count, items |-> items]
PatternUse(name, repetitions) ==
  [type |-> "patternUse", name |-> name, repetitions |-> repetitions]

C4 == Pitch("C", "", 4)
E4 == Pitch("E", "", 4)
Quarter == Duration(1, 4)
Eighth == Duration(1, 8)

\* inst lead sine / inst pad square gain=0.5 attack=0.01 / inst bell triangle
\* sustain=0.4 release=0.2
InstLead == [name |-> "lead", waveform |-> "sine", gain |-> Absent, adsr |-> Absent]
InstPad ==
  [name |-> "pad", waveform |-> "square", gain |-> {50},
   adsr |-> {[attack |-> {10}, decay |-> Absent, sustain |-> Absent, release |-> Absent]}]
InstBell ==
  [name |-> "bell", waveform |-> "triangle", gain |-> Absent,
   adsr |-> {[attack |-> Absent, decay |-> Absent, sustain |-> {400}, release |-> {200}]}]
Instruments == << InstPad, InstLead, InstBell >>

\* pattern riff: C4 1/4, r 1/8 / pattern fill: x2 { use riff, [E4 C4] 1/8 }
PatternRiff == [name |-> "riff", items |-> << NoteNode(C4, Quarter), RestNode(Eighth) >>]
PatternFill ==
  [name |-> "fill",
   items |-> << RepeatBlock(2, << PatternUse("riff", 1), ChordNode(<< E4, C4 >>, Eighth) >>) >>]
Patterns == << PatternRiff, PatternFill >>

\* The item lists programs are built from: two notes; a rest that ends between
\* two quarter grid lines; a chord with its pitches given downwards; a rest that
\* ends 1 ms after a grid line; pattern uses; nested repeat blocks
Melody == << NoteNode(C4, Quarter), NoteNode(E4, Quarter) >>
Offbeat == << RestNode(Duration(3, 8)), NoteNode(E4, Eighth) >>
Chords == << ChordNode(<< E4, C4 >>, Quarter), NoteNode(C4, Quarter) >>
NearGrid == << RestNode(Duration(2001, 4000)), NoteNode(C4, Quarter) >>
Uses == << PatternUse("riff", 2), PatternUse("fill", 1), NoteNode(E4, Eighth) >>
Repeats ==
  << RepeatBlock(2, << NoteNode(C4, Eighth), RepeatBlock(2, << RestNode(Eighth) >>) >>),
     NoteNode(E4, Quarter) >>
ItemLists == {Melody, Offbeat, Chords, NearGrid, Uses, Repeats}

\* seq: absent or one of the lists
SequenceInputs == {Absent} \cup { {items} : items \in ItemLists }

Track(name, instrumentName, items) ==
  [name |-> name, instrumentName |-> instrumentName, items |-> items]

\* track declarations: none; two tracks named against the alphabet; one track
\* of rests and notes on an instrument with gain and envelope; one on an
\* instrument with an envelope only
TrackLists ==
  { << >>,
    << Track("b", "lead", Melody), Track("a", "pad", Offbeat) >>,
    << Track("a", "pad", NearGrid) >>,
    << Track("a", "bell", Repeats) >> }

\* swing (hundredths) and grid of the global settings
Swings == {0, 50, 75}
Grids == {2, 4}

\* bpm 60: a whole note lasts 4000 ms
ProgramBpms == {60}

\* the Program parse() returns; without an explicit default the first
\* instrument is the default one
Programs ==
  { [ bpm |-> bpm, instrument |-> Instruments[1], instruments |-> Instruments,
      patterns |-> Patterns, tracks |-> tracks, sequence |-> sequence,
      globalSettings |-> [swing |-> swing, loop |-> 1, grid |-> grid] ] :
      bpm \in ProgramBpms, tracks \in TrackLists, sequence \in SequenceInputs,
      swing \in Swings, grid \in Grids }

\* Programs as a user drafts them, with references that lead nowhere, patterns
\* that use themselves, and values out of range

\* C10: the tokenizer takes any digits as the octave of a note
C10 == Pitch("C", "", 10)

\* pattern intro: C4 1/4, use ghost / pattern spin: C4 1/4, use spin x2 /
\* pattern ping: use pong / pattern pong: r 1/8, use ping /
\* pattern high: C10 1/4 / pattern void: r 1/0
PatternIntro ==
  [name |-> "intro", items |-> << NoteNode(C4, Quarter), PatternUse("ghost", 1) >>]
PatternSpin ==
  [name |-> "spin", items |-> << NoteNode(C4, Quarter), PatternUse("spin", 2) >>]
PatternPing == [name |-> "ping", items |-> << PatternUse("pong", 1) >>]
PatternPong == [name |-> "pong", items |-> << RestNode(Eighth), PatternUse("ping", 1) >>]
PatternHigh == [name |-> "high", items |-> << NoteNode(C10, Quarter) >>]
PatternVoid == [name |-> "void", items |-> << RestNode(Duration(1, 0)) >>]

\* pattern definitions: none; sound ones, riff defined twice; one that uses
\* an undefined pattern; a pattern that uses itself; two that use each other;
\* one with an octave out of range; one with a zero denominator
DraftPatterns ==
  { << >>,
    << PatternRiff, PatternFill, PatternRiff >>,
    << PatternRiff, PatternIntro >>,
    << PatternRiff, PatternSpin >>,
    << PatternPing, PatternRiff, PatternPong >>,
    << PatternRiff, PatternHigh >>,
    << PatternVoid, PatternRiff >> }

\* seq: absent; sound items without a use; uses of each of the patterns above,
\* at the top or inside a repeat block; values out of range in a note, a
\* chord and a repeat body
DraftSequences ==
  { Absent,
    {Melody},
    {<< PatternUse("riff", 2) >>},
    {<< NoteNode(E4, Quarter), PatternUse("ghost", 1) >>},
    {<< RepeatBlock(2, << PatternUse("intro", 1) >>) >>},
    {<< PatternUse("spin", 1) >>},
    {<< RestNode(Quarter), PatternUse("ping", 1) >>},
    {<< PatternUse("high", 1) >>},
    {<< PatternUse("void", 1) >>},
    {<< NoteNode(C4, Quarter), NoteNode(C10, Quarter) >>},
    {<< NoteNode(C4, Duration(0, 4)) >>},
    {<< ChordNode(<< C4, C10 >>, Quarter) >>},
    {<< RepeatBlock(2, << NoteNode(C4, Eighth), RestNode(Duration(1, 0)) >>) >>} }

\* track declarations: none; one on a defined instrument; one on an instrument
\* no inst directive defines; one with an octave out of range
DraftTracks ==
  { << >>,
    << Track("a", "pad", Melody) >>,
    << Track("a", "pad", Melody), Track("b", "organ", Offbeat) >>,
    << Track("a", "lead", << RestNode(Eighth), NoteNode(C10, Eighth) >>) >> }

\* inst directives: the three above, lead defined a second time
DraftInstruments == << InstPad, InstLead, InstBell, InstLead >>

DraftPrograms ==
  { [ bpm |-> bpm, instrument |-> DraftInstruments[1], instruments |-> DraftInstruments,
      patterns |-> patterns, tracks |-> tracks, sequence |-> sequence,
      globalSettings |-> [swing |-> 0, loop |-> 1, grid |-> 16] ] :
      bpm \in ProgramBpms, patterns \in DraftPatterns, tracks \in DraftTracks,
      sequence \in DraftSequences }

\* ------------------------------------------------------------------ tokenizer

\* The source text is held as its lines, each line as its words: a word is a
\* run of word characters or one other character, with the number of blanks
\* before it (gap), its text, the token type its text matches among REPEAT,
\* NOTE, DURATION, DECIMAL, NUMBER and IDENTIFIER ("INVALID" if it matches
\* none, "CHAR" for a character that starts no token), and what the text reads
\* as: the pitch of a note, the two numerals of a duration, the number of a
\* repeat marker or a number (a decimal in thousandths).
Word(gap, text, type, read) == [gap |-> gap, text |-> text, type |-> type, read |-> read]
Reads(pitch, duration, number) == [pitch |-> pitch, duration |-> duration, number |-> number]
NoReading == Reads(Pitch("", "", 0), Duration(0, 0), 0)

\* String.prototype.toLowerCase
UpperCaseLetters == "ABCDEFGHIJKLMNOPQRSTUVWXYZ"
LowerCaseLetters == "abcdefghijklmnopqrstuvwxyz"
RECURSIVE toLowerCase(_)
toLowerCase(text) ==
  IF Len(text) = 0 THEN ""
  ELSE LET char == SubSeq(text, 1, 1)
           places == { i \in 1..Len(UpperCaseLetters) : SubSeq(UpperCaseLetters, i, i) = char }
           lower == IF places = {} THEN char
                    ELSE LET i == CHOOSE i \in places : TRUE IN SubSeq(LowerCaseLetters, i, i)
       IN  lower \o toLowerCase(SubSeq(text, 2, Len(text)))

\* the token type of a single-character token or of a keyword, "" if none
SingleCharacterType(char) ==
  CASE char = "," -> "COMMA" [] char = ":" -> "COLON" [] char = "=" -> "EQUALS"
    [] char = "[" -> "BRACKET_OPEN" [] char = "]" -> "BRACKET_CLOSE"
    [] char = "{" -> "BRACE_OPEN" [] char = "}" -> "BRACE_CLOSE" [] OTHER -> ""
KeywordType(lowerWord) ==
  CASE lowerWord = "bpm" -> "BPM" [] lowerWord = "inst" -> "INST" [] lowerWord = "seq" -> "SEQ"
    [] lowerWord = "swing" -> "SWING" [] lowerWord = "loop" -> "LOOP"
    [] lowerWord = "grid" -> "GRID" [] lowerWord = "track" -> "TRACK"
    [] lowerWord = "pattern" -> "PATTERN" [] lowerWord = "use" -> "USE"
    [] lowerWord = "r" -> "REST" [] OTHER -> ""

\* createToken(type, value, startLine, startColumn), with what the value reads as
createToken(type, value, read, startLine, startColumn) ==
  [type |-> type, value |-> value, read |-> read, line |-> startLine, column |-> startColumn]

\* new TokenizerError(message, line, column), new ParseError(message, line,
\* column): the message is given the position
LocatedError(name, message, line, column) ==
  [ name |-> name,
    message |-> message \o " at line " \o ToString(line) \o ", column " \o ToString(column),
    located |-> TRUE, line |-> line, column |-> column ]

\* new Error(message): no line, no column
PlainError(message) ==
  [ name |-> "Error", message |-> message, located |-> FALSE, line |-> 0, column |-> 0 ]

\* the column at which the k-th word of a line starts
RECURSIVE ColumnOf(_, _)
ColumnOf(words, k) ==
  IF k = 1 THEN 1 + words[1].gap
  ELSE ColumnOf(words, k - 1) + Len(words[k - 1].text) + words[k].gap

\* the words of all lines in reading order, each with its line and column
RECURSIVE Placed(_, _)
Placed(lines, n) ==
  IF n = 0 THEN << >>
  ELSE Placed(lines, n - 1) \o
       [ k \in 1..Len(lines[n]) |->
           [word |-> lines[n][k], line |-> n, column |-> ColumnOf(lines[n], k)] ]

\* the token the main loop of tokenize pushes for a word
TokenOf(placed) ==
  LET word == placed.word
      type == IF SingleCharacterType(word.text) # "" THEN SingleCharacterType(word.text)
              ELSE IF KeywordType(toLowerCase(word.text)) # ""
                THEN KeywordType(toLowerCase(word.text))
              ELSE word.type
  IN  createToken(type, word.text, word.read, placed.line, placed.column)

\* tokenize(input): the tokens up to EOF, or the TokenizerError thrown at the
\* first word that is no token
tokenize(lines) ==
  LET placed == Placed(lines, Len(lines))
      bad == { i \in 1..Len(placed) : TokenOf(placed[i]).type \in {"INVALID", "CHAR"} }
      first == CHOOSE i \in bad : \A j \in bad : i <= j
      last == Len(lines)
      eofLine == IF last = 0 THEN 1 ELSE last
      eofColumn == IF last = 0 \/ lines[last] = << >> THEN 1
                   ELSE ColumnOf(lines[last], Len(lines[last]))
                        + Len(lines[last][Len(lines[last])].text)
  IN  IF bad # {}
        THEN [ tokens |-> << >>,
               error |-> { LocatedError("TokenizerError",
                             IF TokenOf(placed[first]).type = "CHAR"
                               THEN "Unexpected character '" \o placed[first].word.text \o "'"
                             ELSE "Invalid token '" \o placed[first].word.text \o "'",
                             placed[first].line, placed[first].column) } ]
      ELSE [ tokens |-> [ i \in 1..Len(placed) |-> TokenOf(placed[i]) ]
                          \o << createToken("EOF", "", NoReading, eofLine, eofColumn) >>,
             error |-> Absent ]

\* ------------------------------------------------------------------ parser

\* What a parsing method returns: the node built and the position after it, or
\* the ParseError it throws
Parsed(node, pos) == [node |-> node, pos |-> pos, error |-> Absent]
Raised(error) == [node |-> << >>, pos |-> 0, error |-> {error}]
ParseError(message, token) == LocatedError("ParseError", message, token.line, token.column)

\* a statement that may throw, then the statements after it with what it
\* returned; the statement is run once
Try(statement, Rest(_)) ==
  CHOOSE outcome \in { IF returned.error # Absent THEN returned ELSE Rest(returned) :
                       returned \in {statement} } : TRUE

\* `${token.value || token.type}`
ValueOrType(token) == IF token.value # "" THEN token.value ELSE token.type

\* Parser.advance: the position after the current token; EOF is never passed
advance(tokens, pos) == IF tokens[pos].type # "EOF" THEN pos + 1 ELSE pos

\* Parser.expect(type, message); message "" stands for none given
expect(tokens, pos, type, message) ==
  LET token == tokens[pos]
      msg == IF message # "" THEN message
             ELSE "Expected " \o type \o ", got " \o token.type
  IN  IF token.type # type THEN Raised(ParseError(msg, token))
      ELSE Parsed(token, advance(tokens, pos))

\* parseFloat(token.value) of a DECIMAL or NUMBER token, in thousandths, and
\* parseInt(token.value, 10) of a NUMBER token or of a REPEAT token less its x
parseFloat(token) ==
  IF token.type = "DECIMAL" THEN token.read.number ELSE token.read.number * 1000
parseInt(token) == token.read.number

\* the node takes the position of the token it starts at
At(node, token) == node @@ [line |-> token.line, column |-> token.column]

\* the optional velocity of a note or chord, in hundredths: [vel=<0..1>]
parseVelocity(tokens, pos) ==
  IF tokens[pos].type = "IDENTIFIER" /\ toLowerCase(tokens[pos].value) = "vel"
    THEN Try(expect(tokens, advance(tokens, pos), "EQUALS", "Expected = after vel"),
           LAMBDA equals :
             LET velToken == tokens[equals.pos]
                 velocity == parseFloat(velToken)
             IN  IF velToken.type \notin {"DECIMAL", "NUMBER"}
                   THEN Raised(ParseError("Expected number for velocity", velToken))
                 ELSE IF velocity < 0 \/ velocity > 1000
                   THEN Raised(ParseError("Invalid velocity: " \o velToken.value
                                            \o ". Must be between 0 and 1", velToken))
                 ELSE Parsed({velocity \div 10}, advance(tokens, equals.pos)))
  ELSE Parsed(Absent, pos)

\* parseNote: <pitch> <duration> [vel=<0..1>]
parseNote(tokens, pos) ==
  Try(expect(tokens, pos, "NOTE", ""), LAMBDA pitchToken :
  Try(expect(tokens, pitchToken.pos, "DURATION", "Expected duration after note"),
      LAMBDA durationToken :
  Try(parseVelocity(tokens, durationToken.pos), LAMBDA velocity :
    Parsed(At([type |-> "note", pitch |-> pitchToken.node.read.pitch,
               duration |-> durationToken.node.read.duration,
               velocity |-> velocity.node],
              pitchToken.node),
           velocity.pos))))

\* parseRest: r <duration>
parseRest(tokens, pos) ==
  Try(expect(tokens, pos, "REST", ""), LAMBDA restToken :
  Try(expect(tokens, restToken.pos, "DURATION", "Expected duration after rest"),
      LAMBDA durationToken :
    Parsed(At(RestNode(durationToken.node.read.duration), restToken.node),
           durationToken.pos)))

\* the loop of parseChord over the pitches inside the brackets
RECURSIVE parseChordPitches(_, _, _, _)
parseChordPitches(tokens, pos, startToken, pitches) ==
  IF tokens[pos].type = "BRACKET_CLOSE" THEN Parsed(pitches, pos)
  ELSE IF tokens[pos].type = "EOF"
    THEN Raised(ParseError("Unclosed chord bracket", startToken))
  ELSE IF tokens[pos].type = "NOTE"
    THEN parseChordPitches(tokens, advance(tokens, pos), startToken,
                           Append(pitches, tokens[pos].read.pitch))
  ELSE Raised(ParseError("Expected note in chord, got '" \o ValueOrType(tokens[pos]) \o "'",
                         tokens[pos]))

\* parseChord: [<pitch> <pitch> ...] <duration> [vel=<0..1>]
parseChord(tokens, pos) ==
  Try(expect(tokens, pos, "BRACKET_OPEN", ""), LAMBDA startToken :
  Try(parseChordPitches(tokens, startToken.pos, startToken.node, << >>), LAMBDA pitches :
  Try(expect(tokens, pitches.pos, "BRACKET_CLOSE", "Expected ] to close chord"),
      LAMBDA close :
  Try(expect(tokens, close.pos, "DURATION", "Expected duration after chord"),
      LAMBDA durationToken :
  Try(parseVelocity(tokens, durationToken.pos), LAMBDA velocity :
    Parsed(At([type |-> "chord", pitches |-> pitches.node,
               duration |-> durationToken.node.read.duration,
               velocity |-> velocity.node],
              startToken.node),
           velocity.pos))))))

\* parsePatternUse: use <patternName> [xN]
parsePatternUse(tokens, pos) ==
  Try(expect(tokens, pos, "USE", ""), LAMBDA useToken :
  Try(expect(tokens, useToken.pos, "IDENTIFIER", "Expected pattern name after use"),
      LAMBDA nameToken :
    LET repeatToken == tokens[nameToken.pos]
        counted == repeatToken.type = "REPEAT"
        repetitions == IF counted THEN parseInt(repeatToken) ELSE 1
    IN  IF counted /\ repetitions <= 0
          THEN Raised(ParseError("Invalid repetition count: " \o repeatToken.value,
                                 repeatToken))
        ELSE Parsed(At(PatternUse(nameToken.node.value, repetitions), useToken.node),
                    IF counted THEN advance(tokens, nameToken.pos) ELSE nameToken.pos)))

isDirectiveToken(type) ==
  type \in {"BPM", "INST", "SEQ", "SWING", "LOOP", "GRID", "PATTERN", "TRACK"}

\* parseSequenceItems, with the items pushed so far, and parseRepeatBlock:
\* xN { ... }
RECURSIVE parseSequenceItems(_, _, _), parseRepeatBlock(_, _)
parseSequenceItems(tokens, pos, items) ==
  LET token == tokens[pos]
  IN  IF token.type = "EOF" \/ isDirectiveToken(token.type) \/ token.type = "BRACE_CLOSE"
        THEN Parsed(items, pos)
      ELSE IF token.type \in {"NOTE", "REST", "BRACKET_OPEN", "REPEAT", "USE"}
        THEN Try(CASE token.type = "NOTE" -> parseNote(tokens, pos)
                   [] token.type = "REST" -> parseRest(tokens, pos)
                   [] token.type = "BRACKET_OPEN" -> parseChord(tokens, pos)
                   [] token.type = "REPEAT" -> parseRepeatBlock(tokens, pos)
                   [] token.type = "USE" -> parsePatternUse(tokens, pos),
                 LAMBDA item :
                   parseSequenceItems(tokens, item.pos, Append(items, item.node)))
      ELSE IF token.type = "COMMA"
        THEN parseSequenceItems(tokens, advance(tokens, pos), items)
      ELSE Raised(ParseError("Expected note, rest, chord, repeat, or use in sequence, got '"
                               \o ValueOrType(token) \o "'", token))

parseRepeatBlock(tokens, pos) ==
  Try(expect(tokens, pos, "REPEAT", ""), LAMBDA repeatToken :
    IF parseInt(repeatToken.node) <= 0
      THEN Raised(ParseError("Invalid repeat count: " \o repeatToken.node.value,
                             repeatToken.node))
    ELSE
  Try(expect(tokens, repeatToken.pos, "BRACE_OPEN", "Expected { after repeat count"),
      LAMBDA open :
  Try(parseSequenceItems(tokens, open.pos, << >>), LAMBDA items :
  Try(expect(tokens, items.pos, "BRACE_CLOSE", "Expected } to close repeat block"),
      LAMBDA close :
    Parsed(At(RepeatBlock(parseInt(repeatToken.node), items.node), repeatToken.node),
           close.pos)))))

\* parseSequence: seq: <items>; the node is held as its items
parseSequence(tokens, pos) ==
  Try(expect(tokens, pos, "SEQ", ""), LAMBDA seqToken :
  Try(expect(tokens, seqToken.pos, "COLON", "Expected : after seq"), LAMBDA colon :
    parseSequenceItems(tokens, colon.pos, << >>)))

\* parsePatternDefinition: pattern <name>: <items>
parsePatternDefinition(tokens, pos) ==
  Try(expect(tokens, pos, "PATTERN", ""), LAMBDA patternToken :
  Try(expect(tokens, patternToken.pos, "IDENTIFIER", "Expected pattern name after pattern"),
      LAMBDA nameToken :
  Try(expect(tokens, nameToken.pos, "COLON", "Expected : after pattern name"),
      LAMBDA colon :
  Try(parseSequenceItems(tokens, colon.pos, << >>), LAMBDA items :
    Parsed(At([name |-> nameToken.node.value, items |-> items.node], patternToken.node),
           items.pos)))))

\* parseTrackDefinition: track <name> inst=<instName>: <items>
parseTrackDefinition(tokens, pos) ==
  Try(expect(tokens, pos, "TRACK", ""), LAMBDA trackToken :
  Try(expect(tokens, trackToken.pos, "IDENTIFIER", "Expected track name after track"),
      LAMBDA nameToken :
  Try(expect(tokens, nameToken.pos, "INST", "Expected 'inst' keyword after track name"),
      LAMBDA instKeyToken :
  Try(expect(tokens, instKeyToken.pos, "EQUALS", "Expected = after inst"), LAMBDA equals :
  Try(expect(tokens, equals.pos, "IDENTIFIER", "Expected instrument name after inst="),
      LAMBDA instNameToken :
  Try(expect(tokens, instNameToken.pos, "COLON", "Expected : after track definition"),
      LAMBDA colon :
  Try(parseSequenceItems(tokens, colon.pos, << >>), LAMBDA items :
    Parsed(At(Track(nameToken.node.value, instNameToken.node.value, items.node),
              trackToken.node),
           items.pos))))))))

VALID_WAVEFORMS == << "sine", "square", "sawtooth", "triangle" >>

\* the loop of parseInstDirective over the key=value parameters: gain in
\* hundredths, attack, decay and release in ms, sustain in thousandths
RECURSIVE parseInstParameters(_, _, _, _)
parseInstParameters(tokens, pos, gain, adsr) ==
  LET keyToken == tokens[pos]
      key == toLowerCase(keyToken.value)
  IN  IF keyToken.type # "IDENTIFIER" \/ tokens[pos + 1].type # "EQUALS"
        THEN Parsed([gain |-> gain, adsr |-> adsr], pos)
      ELSE
  Try(expect(tokens, advance(tokens, pos), "EQUALS", "Expected = after parameter name"),
      LAMBDA equals :
    LET valueToken == tokens[equals.pos]
        value == parseFloat(valueToken)
        after == advance(tokens, equals.pos)
        Invalid(range) ==
          Raised(ParseError("Invalid " \o key \o " value: " \o valueToken.value
                              \o ". Must be " \o range, keyToken))
    IN  IF valueToken.type \notin {"DECIMAL", "NUMBER"}
          THEN Raised(ParseError("Expected number value for " \o key, valueToken))
        ELSE IF key = "gain"
          THEN IF value < 0 \/ value > 1000 THEN Invalid("between 0 and 1")
               ELSE parseInstParameters(tokens, after, {value \div 10}, adsr)
        ELSE IF key = "sustain"
          THEN IF value < 0 \/ value > 1000 THEN Invalid("between 0 and 1")
               ELSE parseInstParameters(tokens, after, gain,
                                        [adsr EXCEPT !.given = TRUE, !.sustain = {value}])
        ELSE IF key \in {"attack", "decay", "release"}
          THEN IF value < 0 THEN Invalid(">= 0")
               ELSE parseInstParameters(tokens, after, gain,
                                        [adsr EXCEPT !.given = TRUE, ![key] = {value}])
        ELSE Raised(ParseError("Unknown instrument parameter: " \o key, keyToken)))

\* parseInstDirective: inst <name> <waveform> [key=value ...]
parseInstDirective(tokens, pos) ==
  Try(expect(tokens, pos, "INST", ""), LAMBDA instToken :
  Try(expect(tokens, instToken.pos, "IDENTIFIER", "Expected instrument name after inst"),
      LAMBDA nameToken :
  Try(expect(tokens, nameToken.pos, "IDENTIFIER", "Expected waveform after instrument name"),
      LAMBDA waveformToken :
    IF \A i \in 1..Len(VALID_WAVEFORMS) :
         VALID_WAVEFORMS[i] # toLowerCase(waveformToken.node.value)
      THEN Raised(ParseError("Invalid waveform '" \o waveformToken.node.value
                               \o "'. Valid options: " \o JoinNames(VALID_WAVEFORMS),
                             waveformToken.node))
    ELSE
  Try(parseInstParameters(tokens, waveformToken.pos, Absent,
                          [given |-> FALSE, attack |-> Absent, decay |-> Absent,
                           sustain |-> Absent, release |-> Absent]),
      LAMBDA parameters :
    LET adsr == parameters.node.adsr
    IN  Parsed(At([name |-> nameToken.node.value,
                   waveform |-> toLowerCase(waveformToken.node.value),
                   gain |-> parameters.node.gain,
                   adsr |-> IF adsr.given
                              THEN {[attack |-> adsr.attack, decay |-> adsr.decay,
                                     sustain |-> adsr.sustain, release |-> adsr.release]}
                            ELSE Absent],
                  instToken.node),
               parameters.pos)))))

\* parseBpmDirective: bpm <number>; the node is held as its value
parseBpmDirective(tokens, pos) ==
  Try(expect(tokens, pos, "BPM", ""), LAMBDA bpmToken :
  Try(expect(tokens, bpmToken.pos, "NUMBER", "Expected number after bpm"),
      LAMBDA numberToken :
    IF parseInt(numberToken.node) <= 0
      THEN Raised(ParseError("Invalid BPM value: " \o numberToken.node.value,
                             numberToken.node))
    ELSE Parsed(parseInt(numberToken.node), numberToken.pos)))

\* parseSwingDirective: swing <0..0.75>, in hundredths
parseSwingDirective(tokens, pos, startToken) ==
  Try(expect(tokens, pos, "SWING", ""), LAMBDA swingToken :
    LET valueToken == tokens[swingToken.pos]
        value == parseFloat(valueToken)
    IN  IF valueToken.type \notin {"DECIMAL", "NUMBER"}
          THEN Raised(ParseError("Expected number after swing", valueToken))
        ELSE IF value < 0 \/ value > 750
          THEN Raised(ParseError("Invalid swing value: " \o valueToken.value
                                   \o ". Must be between 0 and 0.75", startToken))
        ELSE Parsed(value \div 10, advance(tokens, swingToken.pos)))

\* parseLoopDirective: loop <bars>
parseLoopDirective(tokens, pos, startToken) ==
  Try(expect(tokens, pos, "LOOP", ""), LAMBDA loopToken :
  Try(expect(tokens, loopToken.pos, "NUMBER", "Expected number after loop"),
      LAMBDA numberToken :
    IF parseInt(numberToken.node) <= 0
      THEN Raised(ParseError("Invalid loop value: " \o numberToken.node.value
                               \o ". Must be a positive integer", startToken))
    ELSE Parsed(parseInt(numberToken.node), numberToken.pos)))

\* parseGridDirective: grid <denominator>
validGridValues == << 2, 4, 8, 16, 32, 64 >>
parseGridDirective(tokens, pos, startToken) ==
  Try(expect(tokens, pos, "GRID", ""), LAMBDA gridToken :
  Try(expect(tokens, gridToken.pos, "NUMBER", "Expected number after grid"),
      LAMBDA numberToken :
    IF \A i \in 1..Len(validGridValues) : validGridValues[i] # parseInt(numberToken.node)
      THEN Raised(ParseError("Invalid grid value: " \o numberToken.node.value
                               \o ". Must be one of: 2, 4, 8, 16, 32, 64", startToken))
    ELSE Parsed(parseInt(numberToken.node), numberToken.pos)))

\* what Parser.parse has gathered once a directive is parsed
Gathered(got, type, node) ==
  CASE type = "BPM" -> [got EXCEPT !.bpm = {node}]
    [] type = "INST" -> [got EXCEPT !.instruments = Append(@, node)]
    [] type = "SEQ" -> [got EXCEPT !.sequence = {node}]
    [] type = "SWING" -> [got EXCEPT !.globalSettings.swing = node]
    [] type = "LOOP" -> [got EXCEPT !.globalSettings.loop = node]
    [] type = "GRID" -> [got EXCEPT !.globalSettings.grid = node]
    [] type = "PATTERN" -> [got EXCEPT !.patterns = Append(@, node)]
    [] type = "TRACK" -> [got EXCEPT !.tracks = Append(@, node)]

\* the loop of Parser.parse over the directives, with what it has gathered
RECURSIVE parseDirectives(_, _, _)
parseDirectives(tokens, pos, got) ==
  LET token == tokens[pos]
  IN  IF token.type = "EOF" THEN Parsed(got, pos)
      ELSE IF token.type = "BPM" /\ got.bpm # Absent
        THEN Raised(ParseError("Duplicate bpm directive", token))
      ELSE IF token.type = "SEQ" /\ got.sequence # Absent
        THEN Raised(ParseError("Duplicate seq block", token))
      ELSE IF ~isDirectiveToken(token.type)
        THEN Raised(ParseError("Unexpected token '" \o ValueOrType(token) \o "'", token))
      ELSE
  Try(CASE token.type = "BPM" -> parseBpmDirective(tokens, pos)
        [] token.type = "INST" -> parseInstDirective(tokens, pos)
        [] token.type = "SEQ" -> parseSequence(tokens, pos)
        [] token.type = "SWING" -> parseSwingDirective(tokens, pos, token)
        [] token.type = "LOOP" -> parseLoopDirective(tokens, pos, token)
        [] token.type = "GRID" -> parseGridDirective(tokens, pos, token)
        [] token.type = "PATTERN" -> parsePatternDefinition(tokens, pos)
        [] token.type = "TRACK" -> parseTrackDefinition(tokens, pos),
      LAMBDA directive :
        Try(Parsed(Gathered(got, token.type, directive.node), directive.pos),
            LAMBDA gathered : parseDirectives(tokens, gathered.pos, gathered.node)))

\* parse(tokens): the Program, with the defaults for what the source leaves
\* out, or the ParseError thrown
parse(tokens) ==
  Try(parseDirectives(tokens, 1,
                      [bpm |-> Absent, sequence |-> Absent, instruments |-> << >>,
                       patterns |-> << >>, tracks |-> << >>,
                       globalSettings |-> [swing |-> 0, loop |-> 1, grid |-> 16]]),
      LAMBDA directives :
        LET got == directives.node
            defaultInstrument ==
              IF Len(got.instruments) > 0 THEN got.instruments[1]
              ELSE InstLead @@ [line |-> 0, column |-> 0]
        IN  Parsed([ bpm |-> IF got.bpm = Absent THEN 120 ELSE Given(got.bpm),
                     instrument |-> defaultInstrument,
                     instruments |-> IF Len(got.instruments) > 0 THEN got.instruments
                                     ELSE << defaultInstrument >>,
                     patterns |-> got.patterns, tracks |-> got.tracks,
                     sequence |-> got.sequence, globalSettings |-> got.globalSettings ],
                   directives.pos))

\* ------------------------------------------------------------------ host

\* new DSLError(message, line, column)
DSLError(message, line, column) ==
  [ name |-> "DSLError", message |-> message, located |-> TRUE,
    line |-> line, column |-> column ]

\* toDSLError(error): an error with line and column keeps them, any other
\* Error is placed at line 1, column 1
toDSLError(error) ==
  IF error.name = "DSLError" THEN error
  ELSE IF error.located THEN DSLError(error.message, error.line, error.column)
  ELSE DSLError(error.message, 1, 1)

\* formatError(error): the ErrorInfo
formatError(error) ==
  [ message |-> error.message, line |-> error.line, column |-> error.column,
    formattedMessage |-> "Error at line " \o ToString(error.line) \o ", column "
                           \o ToString(error.column) \o ": " \o error.message ]

\* What the pipeline of compileFromSource(source) does with the text: the
\* stage that threw and its error, or the Program parsed and the
\* CompilationResult. Each stage is run once.
Stopped(stage, thrown, ast) ==
  [stage |-> stage, thrown |-> thrown, ast |-> ast, result |-> Absent]

\* compile(ast) and applySwing: the Error thrown has no position
CompileStage(program) ==
  CHOOSE run \in { IF compiled.error # ""
                     THEN Stopped("compile", {PlainError(compiled.error)}, {program})
                   ELSE [stage |-> "done", thrown |-> Absent, ast |-> {program},
                         result |-> {compiled}] :
                   compiled \in {compileFromSource(program)} } : TRUE

\* parse(tokens)
ParseStage(tokens) ==
  CHOOSE run \in { IF ast.error # Absent THEN Stopped("parse", ast.error, Absent)
                   ELSE CompileStage(ast.node) :
                   ast \in {parse(tokens)} } : TRUE

\* tokenize(source)
Pipeline(lines) ==
  CHOOSE run \in { IF lexed.error # Absent THEN Stopped("tokenize", lexed.error, Absent)
                   ELSE ParseStage(lexed.tokens) :
                   lexed \in {tokenize(lines)} } : TRUE

\* safeCompile(source): the SafeCompilationResult, from what the pipeline did
Outcome(run) ==
  IF run.thrown = Absent
    THEN [success |-> TRUE, result |-> run.result, error |-> Absent]
  ELSE [success |-> FALSE, result |-> Absent,
        error |-> {formatError(toDSLError(Given(run.thrown)))}]
safeCompile(lines) == Outcome(Pipeline(lines))

\* createInitialState()
createInitialState ==
  [lastError |-> Absent, compilationResult |-> Absent, errorLineMarkers |-> << >>]

\* clearLineHighlightMarkers(totalLines)
clearLineHighlightMarkers(totalLines) == [ i \in 1..totalLines |-> FALSE ]

\* updateStateAfterCompilation(_state, compilationResult, totalLines)
updateStateAfterCompilation(state, compilationResult, totalLines) ==
  IF compilationResult.success
    THEN [ lastError |-> Absent,
           compilationResult |-> compilationResult.result,
           errorLineMarkers |-> clearLineHighlightMarkers(totalLines) ]
  ELSE LET errorLine == IF compilationResult.error = Absent THEN 1
                        ELSE Given(compilationResult.error).line
       IN  [ lastError |-> compilationResult.error,
             compilationResult |-> Absent,
             errorLineMarkers |-> [ i \in 1..totalLines |-> i = errorLine ] ]

\* ------------------------------------------------------------------ source texts

\* words as they stand in a text: a name or keyword, a mark (one character
\* outside the word characters), a note, a duration, a repeat marker, a number,
\* a decimal, and a word that matches no token pattern
Name(gap, text) == Word(gap, text, "IDENTIFIER", NoReading)
Mark(gap, text) == Word(gap, text, "CHAR", NoReading)
Note(gap, text, pitch) == Word(gap, text, "NOTE", Reads(pitch, Duration(0, 0), 0))
Length(gap, text, n, d) == Word(gap, text, "DURATION", Reads(Pitch("", "", 0), Duration(n, d), 0))
Times(gap, text, n) == Word(gap, text, "REPEAT", Reads(Pitch("", "", 0), Duration(0, 0), n))
Number(gap, text, n) == Word(gap, text, "NUMBER", Reads(Pitch("", "", 0), Duration(0, 0), n))
Decimal(gap, text, thousandths) ==
  Word(gap, text, "DECIMAL", Reads(Pitch("", "", 0), Duration(0, 0), thousandths))
Invalid(gap, text) == Word(gap, text, "INVALID", NoReading)

\* lines several texts share
LineBpm == << Name(0, "bpm"), Number(1, "60", 60) >>
LineInstLead == << Name(0, "inst"), Name(1, "lead"), Name(1, "sine") >>
LineInstPad ==
  << Name(0, "inst"), Name(1, "pad"), Name(1, "Square"), Name(1, "gain"), Mark(0, "="),
     Decimal(0, "0.5", 500), Name(1, "attack"), Mark(0, "="), Decimal(0, "0.01", 10) >>
LinePatternRiff ==
  << Name(0, "pattern"), Name(1, "riff"), Mark(0, ":"), Note(1, "C4", C4),
     Length(1, "1/4", 1, 4), Mark(0, ","), Name(1, "r"), Length(1, "1/8", 1, 8) >>
SeqOf(words) == << Name(0, "seq"), Mark(0, ":") >> \o words

\* the texts the editor may hold
\* (empty)
TextEmpty == << >>
\* bpm 60 / inst lead sine / seq: C4 1/4, E4 1/4
TextTune ==
  << LineBpm, LineInstLead,
     SeqOf(<< Note(1, "C4", C4), Length(1, "1/4", 1, 4), Mark(0, ","),
              Note(1, "E4", E4), Length(1, "1/4", 1, 4) >>) >>
\* bpm 60 / inst pad Square gain=0.5 attack=0.01 / pattern riff: C4 1/4, r 1/8 /
\* track a inst=pad: use riff x2, [E4 C4] 1/8 Vel=0.8 / loop 2
TextBand ==
  << LineBpm, LineInstPad, LinePatternRiff,
     << Name(0, "track"), Name(1, "a"), Name(1, "inst"), Mark(0, "="), Name(0, "pad"),
        Mark(0, ":"), Name(1, "use"), Name(1, "riff"), Times(1, "x2", 2), Mark(0, ","),
        Mark(1, "["), Note(0, "E4", E4), Note(1, "C4", C4), Mark(0, "]"),
        Length(1, "1/8", 1, 8), Name(1, "Vel"), Mark(0, "="), Decimal(0, "0.8", 800) >>,
     << Name(0, "loop"), Number(1, "2", 2) >> >>
\* swing 0.5 / grid 8 / seq: x2 { C4 1/8, r 1/8 }
TextSwung ==
  << << Name(0, "swing"), Decimal(1, "0.5", 500) >>,
     << Name(0, "grid"), Number(1, "8", 8) >>,
     SeqOf(<< Times(1, "x2", 2), Mark(1, "{"), Note(1, "C4", C4), Length(1, "1/8", 1, 8),
              Mark(0, ","), Name(1, "r"), Length(1, "1/8", 1, 8), Mark(1, "}") >>) >>
\* bpm 60 / seq: C4 1/4, [ ] 1/4
TextEmptyChord ==
  << LineBpm,
     SeqOf(<< Note(1, "C4", C4), Length(1, "1/4", 1, 4), Mark(0, ","),
              Mark(1, "["), Mark(1, "]"), Length(1, "1/4", 1, 4) >>) >>
\* bpm 60 / seq: C4 1/4 @
TextStrayCharacter ==
  << LineBpm, SeqOf(<< Note(1, "C4", C4), Length(1, "1/4", 1, 4), Mark(1, "@") >>) >>
\* bpm 60 / seq: C4# 1/4
TextInvalidWord ==
  << LineBpm, SeqOf(<< Invalid(1, "C4#"), Length(1, "1/4", 1, 4) >>) >>
\* bpm 60 / seq: C4, E4 1/4
TextNoDuration ==
  << LineBpm,
     SeqOf(<< Note(1, "C4", C4), Mark(0, ","), Note(1, "E4", E4), Length(1, "1/4", 1, 4) >>) >>
\* bpm 60 / seq: C4 1/4, [E4 C4
TextUnclosedChord ==
  << LineBpm,
     SeqOf(<< Note(1, "C4", C4), Length(1, "1/4", 1, 4), Mark(0, ","),
              Mark(1, "["), Note(0, "E4", E4), Note(1, "C4", C4) >>) >>
\* bpm 60 / bpm 60
TextTwoBpms == << LineBpm, LineBpm >>
\* bpm 60 / inst lead sine / seq: C4 1/4, use ghost
TextGhost ==
  << LineBpm, LineInstLead,
     SeqOf(<< Note(1, "C4", C4), Length(1, "1/4", 1, 4), Mark(0, ","),
              Name(1, "use"), Name(1, "ghost") >>) >>
\* bpm 60 / inst lead sine / track a inst=organ: C4 1/4
TextOrgan ==
  << LineBpm, LineInstLead,
     << Name(0, "track"), Name(1, "a"), Name(1, "inst"), Mark(0, "="), Name(0, "organ"),
        Mark(0, ":"), Note(1, "C4", C4), Length(1, "1/4", 1, 4) >> >>
\* bpm 60 / seq: E4 1/4, C10 1/4
TextHighOctave ==
  << LineBpm,
     SeqOf(<< Note(1, "E4", E4), Length(1, "1/4", 1, 4), Mark(0, ","),
              Note(1, "C10", C10), Length(1, "1/4", 1, 4) >>) >>
\* bpm 60 / pattern riff: C4 1/4, r 1/8 / seq: use riff, r 1/0
TextZeroDuration ==
  << LineBpm, LinePatternRiff,
     SeqOf(<< Name(1, "use"), Name(1, "riff"), Mark(0, ","),
              Name(1, "r"), Length(1, "1/0", 1, 0) >>) >>
\* pattern ping: use pong / pattern pong: r 1/8, use ping / seq: use ping
TextCycle ==
  << << Name(0, "pattern"), Name(1, "ping"), Mark(0, ":"), Name(1, "use"), Name(1, "pong") >>,
     << Name(0, "pattern"), Name(1, "pong"), Mark(0, ":"), Name(1, "r"),
        Length(1, "1/8", 1, 8), Mark(0, ","), Name(1, "use"), Name(1, "ping") >>,
     SeqOf(<< Name(1, "use"), Name(1, "ping") >>) >>

Texts ==
  { TextEmpty, TextTune, TextBand, TextSwung, TextEmptyChord, TextStrayCharacter,
    TextInvalidWord, TextNoDuration, TextUnclosedChord, TextTwoBpms, TextGhost,
    TextOrgan, TextHighOctave, TextZeroDuration, TextCycle }

\* ------------------------------------------------------------------ actions

\* lastOp: the operation, and whether the session it ended had moved on from
\* the first event of the first iteration
Op(name, idx, iter) == [op |-> name, advanced |-> (idx > 0 \/ iter > 0), wrapped |-> iter > 0]

\* the latest end of any pool event, and the audio time a non-looping session
\* takes at most when the timer is on time
MaxEventEnd == CHOOSE m \in { e.t + e.dur : e \in EventPool } :
                 \A e \in EventPool : e.t + e.dur <= m
SessionSpan == MaxEventEnd + LOOKAHEAD_MS

\* where a session is followed to its end, the clock runs far enough for one
\* that starts within two timer periods
LongClock == SessionSpan + 2 * LOOKAHEAD_MS

\* the observation starts afresh with a session or a new event list
ResetObsTo(modes) ==
  /\ sinkOnce' = {}
  /\ sinkDup' = {}
  /\ rejected' = {}
  /\ modesSeen' = modes
  /\ endedAt' = -1

ResetObs == ResetObsTo({})

\* no call made to the compiler yet
NoCompilerCall == [fn |-> "-"]

\* the state of the scheduler and engine modules once loaded, before any call;
\* the AudioContext the engine creates may start suspended or running
InitPlayer ==
  /\ scheduledEvents = << >>
  /\ nextNoteIndex = 0
  /\ timerID = FALSE
  /\ startTime = 0
  /\ playing = FALSE
  /\ loopEnabled = FALSE
  /\ loopDurationSec = 0
  /\ loopBars = 0
  /\ currentBpm = 120
  /\ scheduledInCurrentLoop = {}
  /\ currentLoopIteration = 0
  /\ mutedTracks = {}
  /\ soloedTracks = {}
  /\ clock = 0
  /\ ctxState \in {"suspended", "running"}
  /\ pendingPlays = 0
  /\ timers = 0
  /\ sinkOnce = {}
  /\ sinkDup = {}
  /\ rejected = {}
  /\ modesSeen = {}
  /\ tickCalls = {}
  /\ endedAt = -1
  /\ afterStop = FALSE
  /\ lastOp = Op("none", 0, 0)
  /\ cfgLoopBars = Absent
  /\ onTransportStateChange = FALSE
  /\ currentPlaybackToken = 0
  /\ activeNodes = {}
  /\ stoppedAt = 0
  /\ engineLog = NoEngineCall
  /\ listenerLog = Log(FALSE, "-", << >>)

\* an editor page just loaded, with no text
InitEditor ==
  /\ sourceText = TextEmpty
  /\ appState = createInitialState

\* a host that has parsed no source
Init ==
  /\ InitPlayer
  /\ InitEditor
  /\ parsed = Absent
  /\ compilerCall = NoCompilerCall

\* initScheduler(config)
initScheduler(config) ==
  /\ scheduledEvents' = SortByT(config.events)
  /\ currentBpm' = config.bpm
  /\ loopBars' = LoopBarsOf(config.loopBars)
  /\ loopEnabled' = LoopEnabledOf(config.loopEnabled, loopBars')
  /\ loopDurationSec' = LoopDurationOf(loopBars', currentBpm')
  /\ nextNoteIndex' = 0
  /\ scheduledInCurrentLoop' = {}
  /\ currentLoopIteration' = 0
  /\ mutedTracks' = {}
  /\ soloedTracks' = {}
  /\ cfgLoopBars' = config.loopBars
  /\ onTransportStateChange' = config.onTransportStateChange
  /\ listenerLog' = Log(onTransportStateChange', "initScheduler", << >>)
  /\ ResetObsTo(IF playing THEN {"reinit"} ELSE {})
  /\ tickCalls' = {}
  /\ lastOp' = Op("init", 0, 0)
  /\ UNCHANGED << timerID, startTime, playing, timers, clock, ctxState, pendingPlays, afterStop,
                  engineVars, compilerVars >>

\* play(): returns at once when playing; else waits for the audio context. With
\* a running context the rest of play() follows before any other task runs; with
\* a suspended one the call stays pending until the context has resumed; at
\* most `room` calls are left pending at once.
play(horizon, room) ==
  /\ clock <= horizon
  /\ currentPlaybackToken < MaxToken
  /\ UNCHANGED << engineVars, compilerVars >>
  /\ afterStop' = FALSE
  /\ tickCalls' = {}
  /\ UNCHANGED << schedVars, clock, ctxState >>
  /\ IF playing
       THEN /\ lastOp' = Op("other", 0, 0)
            /\ listenerLog' = Log(onTransportStateChange, "play", << >>)
            /\ UNCHANGED << transportVars, pendingPlays, obsVars >>
     ELSE IF ctxState = "running"
       THEN /\ SetTransport(playAfterResume(Transport, clock))
            /\ lastOp' = IF lastOp.op = "stop" THEN [lastOp EXCEPT !.op = "stop-play"]
                           ELSE Op("play", 0, 0)
            /\ listenerLog' = Log(onTransportStateChange, "play",
                 notifyTransportStateChange(playAfterResume(Transport, clock), loopEnabled, clock))
            /\ ResetObs
            /\ UNCHANGED pendingPlays
     ELSE /\ pendingPlays < room
          /\ pendingPlays' = pendingPlays + 1
          /\ lastOp' = Op("other", 0, 0)
          /\ listenerLog' = Log(onTransportStateChange, "play", << >>)
          /\ UNCHANGED << transportVars, obsVars >>

\* the audio context has resumed: a pending play() goes on from its await
playResume ==
  /\ pendingPlays > 0
  /\ pendingPlays' = pendingPlays - 1
  /\ ctxState' = "running"
  /\ SetTransport(playAfterResume(Transport, clock))
  /\ lastOp' = Op("play", 0, 0)
  /\ listenerLog' = Log(onTransportStateChange, "resume",
       notifyTransportStateChange(playAfterResume(Transport, clock), loopEnabled, clock))
  /\ ResetObs
  /\ tickCalls' = {}
  /\ UNCHANGED << schedVars, clock, afterStop, engineVars, compilerVars >>

\* stop() called by the host
Stop ==
  /\ SetTransport(stop(Transport))
  /\ SetEngine(engineStop(Transport, Engine))
  /\ engineLog' = NoEngineCall
  /\ afterStop' = TRUE
  /\ lastOp' = Op("stop", nextNoteIndex, currentLoopIteration)
  /\ listenerLog' = Log(onTransportStateChange, "stop", stopNotifications(Transport, clock))
  /\ ResetObs
  /\ tickCalls' = {}
  /\ UNCHANGED << schedVars, clock, ctxState, pendingPlays, compilerVars >>

\* restart(): stop(), then play()
restart(horizon, room) ==
  /\ clock <= horizon
  /\ engineStop(Transport, Engine).token < MaxToken
  /\ SetEngine(engineStop(Transport, Engine))
  /\ engineLog' = NoEngineCall
  /\ afterStop' = FALSE
  /\ tickCalls' = {}
  /\ ResetObs
  /\ UNCHANGED << schedVars, clock, ctxState, compilerVars >>
  /\ IF ctxState = "running"
       THEN /\ SetTransport(playAfterResume(stop(Transport), clock))
            /\ lastOp' = Op("stop-play", nextNoteIndex, currentLoopIteration)
            /\ listenerLog' = Log(onTransportStateChange, "restart",
                 stopNotifications(Transport, clock) \o
                 notifyTransportStateChange(playAfterResume(stop(Transport), clock),
                                            loopEnabled, clock))
            /\ UNCHANGED pendingPlays
     ELSE /\ pendingPlays < room
          /\ pendingPlays' = pendingPlays + 1
          /\ SetTransport(stop(Transport))
          /\ lastOp' = Op("other", 0, 0)
          /\ listenerLog' = Log(onTransportStateChange, "restart",
                                 stopNotifications(Transport, clock))

\* setLoopEnabled(enabled)
setLoopEnabled(enabled) ==
  /\ loopEnabled' = enabled
  /\ tickCalls' = {}
  /\ lastOp' = Op("other", 0, 0)
  /\ listenerLog' = Log(onTransportStateChange, "setLoopEnabled",
                        notifyTransportStateChange(Transport, enabled, clock))
  /\ UNCHANGED << scheduledEvents, loopDurationSec, loopBars, currentBpm, mutedTracks,
                  soloedTracks, cfgLoopBars, onTransportStateChange, transportVars, obsVars,
                  clock, ctxState, pendingPlays, afterStop, engineVars, compilerVars >>

\* setTrackMuted(trackName, muted)
setTrackMuted(trackName, muted) ==
  /\ mutedTracks' = IF muted THEN mutedTracks \cup {trackName} ELSE mutedTracks \ {trackName}
  /\ tickCalls' = {}
  /\ lastOp' = Op("other", 0, 0)
  /\ listenerLog' = Log(onTransportStateChange, "setTrackMuted", << >>)
  /\ UNCHANGED << scheduledEvents, loopEnabled, loopDurationSec, loopBars, currentBpm,
                  soloedTracks, cfgLoopBars, onTransportStateChange, transportVars, obsVars,
                  clock, ctxState, pendingPlays, afterStop, engineVars, compilerVars >>

\* setTrackSoloed(trackName, soloed)
setTrackSoloed(trackName, soloed) ==
  /\ soloedTracks' = IF soloed THEN soloedTracks \cup {trackName} ELSE soloedTracks \ {trackName}
  /\ tickCalls' = {}
  /\ lastOp' = Op("other", 0, 0)
  /\ listenerLog' = Log(onTransportStateChange, "setTrackSoloed", << >>)
  /\ UNCHANGED << scheduledEvents, loopEnabled, loopDurationSec, loopBars, currentBpm,
                  mutedTracks, cfgLoopBars, onTransportStateChange, transportVars, obsVars,
                  clock, ctxState, pendingPlays, afterStop, engineVars, compilerVars >>

\* an interval timer fires d ms of audio time after the last step and runs
\* scheduler(), which reads the clock once
fire(d, horizon) ==
  /\ timers > 0
  /\ clock + d <= horizon
  /\ clock' = clock + d
  /\ UNCHANGED << schedVars, ctxState, pendingPlays, compilerVars >>
  /\ IF ~playing
       THEN /\ tickCalls' = {}
            /\ lastOp' = Op("other", 0, 0)
            /\ listenerLog' = Log(onTransportStateChange, "tick", << >>)
            /\ UNCHANGED << transportVars, obsVars, afterStop, engineVars >>
     ELSE LET r == scheduler(clock')
              pairs == { <<c.idx, c.when>> : c \in r.calls }
          IN  /\ SetTransport(r.tr)
              /\ tickCalls' = r.calls
              /\ sinkOnce' = sinkOnce \cup pairs
              /\ sinkDup' = sinkDup \cup (pairs \cap sinkOnce)
              /\ rejected' = rejected \cup r.rej
              /\ modesSeen' = modesSeen \cup {r.mode}
              /\ endedAt' = IF r.stopped THEN clock' ELSE endedAt
              /\ afterStop' = (afterStop \/ r.stopped)
              /\ lastOp' = IF r.stopped THEN Op("stop", r.at.idx, r.at.iter)
                           ELSE Op("other", 0, 0)
              /\ listenerLog' = Log(onTransportStateChange, "tick", r.notified)
              /\ SetEngine(IF r.stopped THEN stopPlayback(engineDispatch(Engine, r.calls))
                           ELSE engineDispatch(Engine, r.calls))
              /\ engineLog' = NoEngineCall

\* the variables of the scheduler and of its observation
schedulerSide ==
  << schedVars, transportVars, obsVars, ctxState, pendingPlays, tickCalls, afterStop,
     lastOp, listenerLog >>

\* the variables the engine's functions leave alone
outsideEngine == << schedulerSide, clock, compilerVars >>

\* the host calls the engine's scheduleEvents(events, startOffset) itself
ScheduleEventsCall(events, startOffset) ==
  /\ currentPlaybackToken < MaxToken
  /\ SetEngine(scheduleEvents(Engine, events, startOffset, clock))
  /\ engineLog' = EngineCall("scheduleEvents", currentPlaybackToken', FALSE)
  /\ UNCHANGED outsideEngine

\* the host calls the engine's stopPlayback() itself
StopPlaybackCall ==
  /\ currentPlaybackToken < MaxToken
  /\ SetEngine(stopPlayback(Engine))
  /\ engineLog' = EngineCall("stopPlayback", currentPlaybackToken', FALSE)
  /\ UNCHANGED outsideEngine

\* the host calls scheduleNote(ctx, event, startTime, playbackToken) itself,
\* with a token it got earlier or the current one
ScheduleNoteCall(event, noteStart, playbackToken) ==
  /\ SetEngine(scheduleNote(Engine, event, noteStart, playbackToken))
  /\ engineLog' = EngineCall("scheduleNote", playbackToken, CreatesNode(event))
  /\ UNCHANGED outsideEngine

\* oscillator.onended: a node that has stopped leaves activeNodes, whenever the
\* browser delivers the callback
onended(node) ==
  /\ node \in activeNodes
  /\ activeNodes' = activeNodes \ {node}
  /\ engineLog' = NoEngineCall
  /\ UNCHANGED << outsideEngine, currentPlaybackToken, stoppedAt >>

\* the variables of the scheduler, the engine and the audio clock
playerVars == << schedulerSide, clock, engineVars >>

\* the host compiles the source it has parsed: compileFromSource
CompileFromSourceCall ==
  /\ compilerCall' = [fn |-> "compileFromSource", result |-> compileFromSource(parsed)]
  /\ UNCHANGED << parsed, editorVars, playerVars >>

\* the host calls applySwing(events, swing, grid, bpm) itself
ApplySwingCall(events, swing, grid, bpm) ==
  /\ compilerCall' = [fn |-> "applySwing", events |-> events, swing |-> swing, grid |-> grid,
                      bpm |-> bpm, result |-> applySwing(events, swing, grid, bpm)]
  /\ UNCHANGED << parsed, editorVars, playerVars >>

\* the compiler meets a chord at currentTime, with the events pushed so far
CompileChordCall(chord, currentTime, instrument, trackName, events) ==
  /\ compilerCall' =
       [fn |-> "compileChord", chord |-> chord, currentTime |-> currentTime,
        events |-> events, bpm |-> parsed.bpm,
        result |-> compileChord(chord, currentTime, instrument, trackName, events,
                                [bpm |-> parsed.bpm, patterns |-> parsed.patterns,
                                 instruments |-> parsed.instruments,
                                 defaultInstrument |-> parsed.instrument, stack |-> 0])]
  /\ UNCHANGED << parsed, editorVars, playerVars >>

\* ------------------------------------------------------------------ specifications

InitSchedulerAny == \E config \in Configs : initScheduler(config)
InitSchedulerNoLoop == \E config \in NoLoopConfigs : initScheduler(config)
InitSchedulerListening == \E config \in ListenerConfigs : initScheduler(config)
Play == play(MaxClock, 1)
PlayToEnd == currentPlaybackToken < MaxTokenToEnd /\ play(LongClock - SessionSpan, 1)
PlayResume == playResume
Restart == restart(MaxClock, 1)
SetLoopEnabled == \E enabled \in BOOLEAN : setLoopEnabled(enabled)
SetTrackMuted == \E trackName \in TrackNames, muted \in BOOLEAN : setTrackMuted(trackName, muted)
SetTrackSoloed == \E trackName \in TrackNames, soloed \in BOOLEAN : setTrackSoloed(trackName, soloed)

\* the timer fires on time or late; two live timers may fire at the same instant
Tick == \E d \in Delays \cup (IF timers > 1 THEN {0} ELSE {}) : fire(d, MaxClock)

\* the timer fires every LOOKAHEAD_MS
TickOnTime == fire(LOOKAHEAD_MS, MaxClock)
TickOnTimeLong == fire(LOOKAHEAD_MS, LongClock)

\* Any host: any interleaving of the exported operations and timer firings
Next ==
  \/ InitSchedulerAny
  \/ Play
  \/ PlayResume
  \/ Stop
  \/ Restart
  \/ SetLoopEnabled
  \/ SetTrackMuted
  \/ SetTrackSoloed
  \/ Tick

Spec == Init /\ [][Next]_vars

\* A host whose audio context runs from the start and whose timer fires every
\* LOOKAHEAD_MS
InitRunning == Init /\ ctxState = "running"

NextRegular ==
  \/ InitSchedulerAny
  \/ Play
  \/ Stop
  \/ Restart
  \/ SetLoopEnabled
  \/ SetTrackMuted
  \/ SetTrackSoloed
  \/ TickOnTime

SpecRegular == InitRunning /\ [][NextRegular]_vars

\* The same host with configurations that never loop (loopDurationSec = 0),
\* starting sessions only while the clock leaves room for one; the interval
\* timer keeps firing while it is set
NextNoLoop ==
  \/ InitSchedulerNoLoop
  \/ PlayToEnd
  \/ Stop
  \/ SetLoopEnabled
  \/ SetTrackMuted
  \/ TickOnTimeLong

SpecNoLoop == InitRunning /\ [][NextNoLoop]_vars /\ WF_vars(TickOnTimeLong)

\* A host that registers a transport-state listener, on either audio context,
\* with the timer on time
NextListener ==
  \/ InitSchedulerListening
  \/ Play
  \/ PlayResume
  \/ Stop
  \/ Restart
  \/ SetLoopEnabled
  \/ TickOnTime

SpecListener == Init /\ [][NextListener]_vars

\* A host whose programs loop over one bar: no event, one event beyond the
\* loop, two events within it; the timer on time or late
LoopEventLists == { << >>, << EvLate >>, << EvLead, EvLong >> }
LoopConfigs ==
  [events : LoopEventLists, bpm : Bpms, loopBars : {{1}}, loopEnabled : LoopEnabledInputs,
   onTransportStateChange : {FALSE}]
InitSchedulerLooping == \E config \in LoopConfigs : initScheduler(config)

NextLoop ==
  \/ InitSchedulerLooping
  \/ Play
  \/ Stop
  \/ Restart
  \/ SetLoopEnabled
  \/ Tick

SpecLoop == InitRunning /\ [][NextLoop]_vars

\* A host that calls play() or restart() again while an earlier play() still
\* waits for the audio context: up to MaxPendingPlays calls wait at once
OverlapConfigs == { c \in Configs : c.events = << EvLead, EvLong >> /\ c.loopEnabled = Absent }
InitSchedulerOverlap == \E config \in OverlapConfigs : initScheduler(config)
PlayOverlapping == play(MaxClock, MaxPendingPlays)
RestartOverlapping == restart(MaxClock, MaxPendingPlays)

NextOverlap ==
  \/ InitSchedulerOverlap
  \/ PlayOverlapping
  \/ PlayResume
  \/ Stop
  \/ RestartOverlapping
  \/ Tick

SpecOverlap == Init /\ [][NextOverlap]_vars

\* A host that drives the engine itself: whole event lists from the start or
\* from an offset, single notes under any token it may hold, and stops
StartOffsets == {0, BaseStartDelay}
ScheduleEvents ==
  \E events \in EventLists, startOffset \in StartOffsets : ScheduleEventsCall(events, startOffset)
StopPlayback == StopPlaybackCall
ScheduleNote ==
  \E event \in EventPool, playbackToken \in 0..MaxToken :
    ScheduleNoteCall(event, clock, playbackToken)
Onended == \E node \in activeNodes : onended(node)

NextEngine ==
  \/ ScheduleEvents
  \/ StopPlayback
  \/ ScheduleNote
  \/ Onended

SpecEngine == Init /\ [][NextEngine]_vars

\* A host that has parsed a program and calls the compiler: the whole pipeline,
\* applySwing on the compiled events with any setting, and the compiler's step
\* for a chord at some cursor
InitCompile ==
  /\ InitPlayer
  /\ ctxState = "running"
  /\ parsed \in Programs
  /\ compilerCall = NoCompilerCall
  /\ InitEditor

ChordInputs ==
  { ChordNode(<< C4 >>, Eighth), ChordNode(<< E4, C4 >>, Quarter),
    ChordNode(<< C4, E4, C4 >>, Duration(3, 8)) }
Cursors == {0, 500}
CompileFromSource == CompileFromSourceCall
ApplySwing ==
  \E swing \in Swings, grid \in Grids :
    ApplySwingCall(compile(parsed).events, swing, grid, parsed.bpm)
CompileChord ==
  \E chord \in ChordInputs, currentTime \in Cursors,
     events \in {<< >>, << RestEvent(500, 0, parsed.instrument, NoTrack) >>} :
    CompileChordCall(chord, currentTime, parsed.instrument, NoTrack, events)

\* A host that compiles programs as they are drafted
InitDraft ==
  /\ InitPlayer
  /\ ctxState = "running"
  /\ parsed \in DraftPrograms
  /\ compilerCall = NoCompilerCall
  /\ InitEditor

NextDraft == CompileFromSource

SpecDraft == InitDraft /\ [][NextDraft]_vars

NextCompile ==
  \/ CompileFromSource
  \/ ApplySwing
  \/ CompileChord

SpecCompile == InitCompile /\ [][NextCompile]_vars

\* An editor page: the user changes the text and has it compiled

\* the page compiles the text: safeCompile(source), then
\* updateStateAfterCompilation with the number of lines of the text; the
\* Program stays inside compileFromSource, the page holds none
CompileSource ==
  \E run \in {Pipeline(sourceText)} :
    \E result \in {Outcome(run)} :
      /\ appState' = updateStateAfterCompilation(appState, result, Len(sourceText))
      /\ compilerCall' = [fn |-> "safeCompile", source |-> sourceText,
                          stage |-> run.stage, ast |-> run.ast, result |-> result]
      /\ UNCHANGED << sourceText, parsed, playerVars >>

\* the user replaces the text in the editor
EditSource ==
  /\ \E text \in Texts : sourceText' = text
  /\ UNCHANGED << appState, parsed, compilerCall, playerVars >>

InitEditing ==
  /\ InitPlayer
  /\ ctxState = "running"
  /\ parsed = Absent
  /\ compilerCall = NoCompilerCall
  /\ sourceText \in Texts
  /\ appState = createInitialState

NextEditing ==
  \/ EditSource
  \/ CompileSource

SpecEditing == InitEditing /\ [][NextEditing]_vars


\* ------------------------------------------------------------------ claims

\* the event at 0-based index i, and the audio time of its k-th loop iteration
EventAt(i) == scheduledEvents[i + 1]
Indices == 0..(Len(scheduledEvents) - 1)
WhenOf(i, k) == startTime + k * loopDurationSec + EventAt(i).t

\* the track filter as the specification words it
FilterAccepts(event) ==
  LET T == IF event.track = NoTrack THEN "default" ELSE event.track
  IN  IF soloedTracks # {} THEN T \in soloedTracks ELSE T \notin mutedTracks

\* the track filter has let the event through: it was not turned down when a
\* tick met it, and the filter as it stands accepts it
Accepted(i, when) == <<i, when>> \notin rejected /\ FilterAccepts(EventAt(i))

\* startTime + the latest end of any event
LastEnd ==
  IF scheduledEvents = << >> THEN startTime
  ELSE startTime + (CHOOSE m \in { EventAt(i).t + EventAt(i).dur : i \in Indices } :
                      \A i \in Indices : EventAt(i).t + EventAt(i).dur <= m)

\* C1: in non-looping mode with the timer on time, once playback has ended by
\* itself every non-rest event the track filter accepted has been handed to
\* scheduleNote exactly once, with when = startTime + e.t, and nothing twice.
C1_ExactlyOnce ==
  (endedAt # -1 /\ modesSeen = {"noloop"}) =>
    /\ sinkDup = {}
    /\ \A i \in Indices :
         (CreatesNode(EventAt(i)) /\ Accepted(i, startTime + EventAt(i).t))
           => <<i, startTime + EventAt(i).t>> \in sinkOnce

\* C2: in looping mode no <<event index, when>> is handed to scheduleNote more
\* than once, whichever pass hands it over.
C2_AtMostOncePerIteration ==
  modesSeen = {"loop"} => sinkDup = {}

\* C3: in looping mode with the timer on time, every non-rest event with
\* t < loopDurationSec that the track filter accepted has been handed to
\* scheduleNote for every iteration k reached whose time for it has passed,
\* with when = startTime + k * loopDurationSec + e.t.
C3_EveryIteration ==
  (playing /\ modesSeen = {"loop"}) =>
    \A i \in Indices : \A k \in 0..currentLoopIteration :
      ( /\ CreatesNode(EventAt(i))
        /\ EventAt(i).t < loopDurationSec
        /\ WhenOf(i, k) < clock
        /\ Accepted(i, WhenOf(i, k)) )
      => <<i, WhenOf(i, k)>> \in sinkOnce

\* C4: every scheduleNote call of a tick has now <= when < now +
\* SCHEDULE_AHEAD_SEC, now being the clock that tick read.
C4_InLookaheadWindow ==
  \A c \in tickCalls :
    /\ c.now = clock
    /\ c.now <= c.when
    /\ c.when < c.now + SCHEDULE_AHEAD_SEC

C4_Witness ==
  \E c \in tickCalls : c.when > c.now /\ currentLoopIteration > 0

\* C5: a tick hands an event to scheduleNote only if the track filter, on the
\* mute and solo sets as they stand at that tick, accepts it: soloed tracks
\* only when any track is soloed, else every track that is not muted.
C5_FilterGoverns ==
  \A c \in tickCalls : FilterAccepts(EventAt(c.idx))

C5_Witness ==
  /\ "lead" \in soloedTracks
  /\ "lead" \in mutedTracks
  /\ \E c \in tickCalls : EventAt(c.idx).track = "lead"

\* C6: from the return of stop() until play() is called again no tick hands
\* anything to scheduleNote.
C6_SilentAfterStop ==
  afterStop => tickCalls = {}

\* C7: when play() has run, after a stop() or otherwise, the session is fresh:
\* nextNoteIndex = 0, currentLoopIteration = 0, scheduledInCurrentLoop empty,
\* startTime the audio clock, and playing.
C7_FreshSession ==
  lastOp.op \in {"play", "stop-play"} =>
    /\ playing
    /\ nextNoteIndex = 0
    /\ currentLoopIteration = 0
    /\ scheduledInCurrentLoop = {}
    /\ startTime = clock

C7_Witness ==
  lastOp.op = "stop-play" /\ lastOp.wrapped /\ clock > 0

\* C8: in non-looping mode, with the timer firing, playback always ends.
C8_EventuallyEnds ==
  playing ~> ~playing

C8_Witness ==
  endedAt # -1 /\ ~playing /\ sinkOnce # {}

\* C9: a tick calls stop() only after every event has finished playing:
\* now > startTime + max (t + dur).
C9_StopsOnlyAtEnd ==
  endedAt # -1 => endedAt > LastEnd

\* C10: after initScheduler with loopBars 0 or absent, loopDurationSec = 0 and
\* no tick takes the looping branch, whatever loopEnabled is.
C10_ZeroLoopBars ==
  cfgLoopBars \in {Absent, {0}} =>
    /\ loopDurationSec = 0
    /\ "loop" \notin modesSeen

C10_Witness ==
  /\ cfgLoopBars = {0}
  /\ loopEnabled
  /\ modesSeen = {"noloop"}
  /\ tickCalls # {}

\* C11: when initScheduler(config) has returned, the scheduler is not playing,
\* in whatever state it was called.
C11_NotPlayingAfterInit ==
  lastOp.op = "init" => ~playing

\* C12: a tick that takes the looping branch hands no event with
\* t >= loopDurationSec to scheduleNote, in either pass.
C12_BeyondLoopNeverDispatched ==
  (Looping /\ tickCalls # {}) =>
    \A c \in tickCalls : EventAt(c.idx).t < loopDurationSec

\* a looping tick dispatched while an event beyond the loop lay in the window
C12_Witness ==
  /\ Looping
  /\ tickCalls # {}
  /\ \E i \in Indices :
       /\ EventAt(i).t >= loopDurationSec
       /\ InWindow(WhenOf(i, currentLoopIteration), clock)

\* the snapshot getTransportState() returns in the current state
Snapshot == getTransportState(Transport, loopEnabled, clock)

C14_TokenInvalidates ==
  [][ /\ currentPlaybackToken' \in {currentPlaybackToken, currentPlaybackToken + 1}
      /\ engineLog'.call \in {"scheduleEvents", "stopPlayback"} =>
           currentPlaybackToken' = currentPlaybackToken + 1
      /\ (engineLog'.call = "scheduleNote" /\ engineLog'.token # currentPlaybackToken) =>
           activeNodes' = activeNodes
      /\ \A node \in activeNodes' : node.token >= stoppedAt'
    ]_vars

\* after a stop, a sounding note was passed with a token from before the stop
C14_Witness ==
  /\ engineLog.call = "scheduleNote"
  /\ engineLog.sounds
  /\ engineLog.token < stoppedAt
  /\ stoppedAt = currentPlaybackToken

\* the events of the CompilationResult the last compileFromSource returned
CompiledEvents == compilerCall.result.events

\* the events compile() returned for the program, each as applySwing maps it
\* under the program's settings, in compile()'s order
SwungInPlace ==
  LET plain == compile(parsed).events
      s == subdivisionDuration(parsed.globalSettings.grid, parsed.bpm)
  IN  [ i \in 1..Len(plain) |-> Swung(plain[i], parsed.globalSettings.swing, s) ]

\* C15: for every program that compiles, the event list the end-to-end compile
\* returns is sorted by t in non-decreasing order, with swing applied or not.
C15_SortedByT ==
  (compilerCall.fn = "compileFromSource" /\ compilerCall.result.error = "") =>
    \A i \in 1..(Len(CompiledEvents) - 1) : CompiledEvents[i].t <= CompiledEvents[i + 1].t

\* a program was compiled whose swing delays an event beyond the one after it
C15_Witness ==
  /\ compilerCall.fn = "compileFromSource"
  /\ compilerCall.result.error = ""
  /\ parsed.globalSettings.swing > 0
  /\ \E i \in 1..(Len(SwungInPlace) - 1) : SwungInPlace[i].t > SwungInPlace[i + 1].t

\* the track names of the programs in alphabetical order, and a name's place
AlphabeticalTracks == << "a", "b" >>
PlaceOf(trackName) == CHOOSE i \in 1..Len(AlphabeticalTracks) : AlphabeticalTracks[i] = trackName

\* event a may stand before event b of the same t: their track names are in
\* lexicographic order and, on the same track, their midi numbers ascend
TieOrdered(a, b) ==
  /\ (a.track # NoTrack /\ b.track # NoTrack) => PlaceOf(a.track) <= PlaceOf(b.track)
  /\ (a.track = b.track /\ a.midi # Absent /\ b.midi # Absent) => Given(a.midi) <= Given(b.midi)

\* C16: events with equal t stand in the compiled event list ordered by track
\* name (lexicographic) and then by ascending midi number, whatever the order
\* in which tracks and chord pitches were declared.
C16_TiesByTrackThenMidi ==
  (compilerCall.fn = "compileFromSource" /\ compilerCall.result.error = "") =>
    \A i \in 1..(Len(CompiledEvents) - 1) :
      CompiledEvents[i].t = CompiledEvents[i + 1].t =>
        TieOrdered(CompiledEvents[i], CompiledEvents[i + 1])

\* n literal copies of a list of items, one after the other
RECURSIVE Copies(_, _)
Copies(n, items) == IF n <= 0 THEN << >> ELSE items \o Copies(n - 1, items)

\* the body of the pattern of that name
BodyOf(name, patterns) == Given(PatternNamed([patterns |-> patterns], name)).items

\* the items with each pattern use and repeat block among them replaced by the
\* literal copies of its body, the body left as written
InlinedOnce(items, patterns) ==
  LET Written(item) ==
        CASE item.type = "repeat" -> Copies(item.count, item.items)
          [] item.type = "patternUse" -> Copies(item.repetitions, BodyOf(item.name, patterns))
          [] OTHER -> << item >>
      Join[k \in 0..Len(items)] == IF k = 0 THEN << >> ELSE Join[k - 1] \o Written(items[k])
  IN  Join[Len(items)]

\* the same at every nesting depth: only notes, rests and chords are left
RECURSIVE Inlined(_, _)
Inlined(items, patterns) ==
  IF items = << >> THEN << >>
  ELSE LET item == Head(items)
           written ==
             CASE item.type = "repeat" -> Copies(item.count, Inlined(item.items, patterns))
               [] item.type = "patternUse" ->
                    Copies(item.repetitions, Inlined(BodyOf(item.name, patterns), patterns))
               [] OTHER -> << item >>
       IN  written \o Inlined(Tail(items), patterns)

\* the program with the items of its sequence and of its tracks rewritten
WithItems(program, Rewritten(_, _)) ==
  [program EXCEPT
     !.sequence = IF @ = Absent THEN Absent ELSE {Rewritten(Given(@), program.patterns)},
     !.tracks = [ i \in 1..Len(@) |->
                  [@[i] EXCEPT !.items = Rewritten(@, program.patterns)] ]]

\* C17: replacing every `use p xN` by N literal copies of p's body and every
\* `xN { body }` by N literal copies of body, at the outermost level or at
\* every nesting depth, yields the identical event list.
C17_ExpansionTransparent ==
  compilerCall.fn = "compileFromSource" =>
    /\ compilerCall.result = compileFromSource(WithItems(parsed, InlinedOnce))
    /\ compilerCall.result = compileFromSource(WithItems(parsed, Inlined))

\* a program was compiled that uses a pattern which uses another inside a
\* repeat block, next to a track of nested repeat blocks, and has events
C17_Witness ==
  /\ compilerCall.fn = "compileFromSource"
  /\ parsed.sequence = {Uses}
  /\ \E i \in 1..Len(parsed.tracks) : parsed.tracks[i].items = Repeats
  /\ Len(CompiledEvents) > Len(Uses) + Len(Repeats)
  /\ WithItems(parsed, Inlined) # parsed

\* the events the last compileChord call pushed onto the ones it was given
ChordEvents ==
  SubSeq(compilerCall.result.events, Len(compilerCall.events) + 1,
         Len(compilerCall.result.events))

\* C18: a chord of k pitches with duration d met at cursor t emits exactly k
\* note events, all with start t and duration d, after the events emitted
\* before it, and leaves the cursor at t + d.
C18_ChordKeepsCursor ==
  compilerCall.fn = "compileChord" =>
    LET k == Len(compilerCall.chord.pitches)
        d == parseDurationToSeconds(compilerCall.chord.duration, compilerCall.bpm)
        t == compilerCall.currentTime
    IN  /\ Len(compilerCall.result.events) = Len(compilerCall.events) + k
        /\ SubSeq(compilerCall.result.events, 1, Len(compilerCall.events)) = compilerCall.events
        /\ \A i \in 1..Len(ChordEvents) :
             /\ ChordEvents[i].kind = "note"
             /\ ChordEvents[i].t = t
             /\ ChordEvents[i].dur = d
             /\ ChordEvents[i].midi = {pitchToMidi(compilerCall.chord.pitches[i])}
        /\ compilerCall.result.time = t + d

\* a chord of three pitches was compiled at a cursor past 0, after an event
C18_Witness ==
  /\ compilerCall.fn = "compileChord"
  /\ Len(compilerCall.chord.pitches) = 3
  /\ compilerCall.currentTime > 0
  /\ compilerCall.events # << >>
  /\ Len(ChordEvents) = 3

\* the subdivision s = (60 / bpm) * (4 / grid) of the last applySwing call, in
\* ms, and the delay swing * s
StepOfCall == 240000 \div (compilerCall.bpm * compilerCall.grid)
DelayOfCall == (compilerCall.swing * StepOfCall) \div 100

\* t lies on an odd multiple of s
OnOddMultiple(t, s) == t % s = 0 /\ (t \div s) % 2 = 1

\* t lies less than s / 1000 away from an odd multiple of s
NearOddMultiple(t, s) ==
  \E i \in 0..(t \div s + 1) :
    /\ i % 2 = 1
    /\ 1000 * (IF t >= i * s THEN t - i * s ELSE i * s - t) < s

\* how often an event occurs in a list
Occurrences(events, event) == Cardinality({ i \in 1..Len(events) : events[i] = event })

\* the last applySwing call returned its events, those whose t satisfies Moved
\* delayed by swing * s and every other one as it was, in some order
SwingMovedExactly(Moved(_, _)) ==
  LET expected == [ i \in 1..Len(compilerCall.events) |->
                    IF Moved(compilerCall.events[i].t, StepOfCall)
                      THEN [compilerCall.events[i] EXCEPT !.t = @ + DelayOfCall]
                    ELSE compilerCall.events[i] ]
  IN  /\ Len(compilerCall.result) = Len(expected)
      /\ \A i \in 1..Len(expected) :
           Occurrences(compilerCall.result, expected[i]) = Occurrences(expected, expected[i])

\* C19 (as stated): applySwing with swing = 0 returns the event list unchanged;
\* with swing > 0 every event whose t lies on an odd multiple of s is moved
\* later by exactly swing * s and every other event keeps its t.
C19_SwingShiftsOddGrid ==
  compilerCall.fn = "applySwing" =>
    IF compilerCall.swing = 0 THEN compilerCall.result = compilerCall.events
    ELSE SwingMovedExactly(OnOddMultiple)

\* C19 (amended): applySwing with swing = 0 returns the event list unchanged;
\* with swing > 0 every event whose t lies less than s / 1000 away from an odd
\* multiple of s is moved later by exactly swing * s and every other event
\* keeps its t.
C19_SwingShiftsNearOddGrid ==
  compilerCall.fn = "applySwing" =>
    IF compilerCall.swing = 0 THEN compilerCall.result = compilerCall.events
    ELSE SwingMovedExactly(NearOddMultiple)

\* applySwing was called with swing > 0 on events of which one lies on an odd
\* grid line, one on an even grid line past 0 and one just off an odd grid line
C19_Witness ==
  /\ compilerCall.fn = "applySwing"
  /\ compilerCall.swing > 0
  /\ \E i, j, k \in 1..Len(compilerCall.events) :
       /\ OnOddMultiple(compilerCall.events[i].t, StepOfCall)
       /\ compilerCall.events[j].t > 0
       /\ compilerCall.events[j].t % (2 * StepOfCall) = 0
       /\ NearOddMultiple(compilerCall.events[k].t, StepOfCall)
       /\ ~OnOddMultiple(compilerCall.events[k].t, StepOfCall)
  /\ compilerCall.result # compilerCall.events

\* the instrument an event names, among those of the program
GoverningInstrument(event) == Given(InstrumentNamed([instruments |-> parsed.instruments], event.inst))

\* the instrument defined at least one ADSR parameter
DefinesAdsr(instrument) ==
  /\ instrument.adsr # Absent
  /\ \E field \in {"attack", "decay", "sustain", "release"} : Given(instrument.adsr)[field] # Absent

\* the envelope with the instrument's parameters, the omitted ones at attack
\* 0.005, decay 0.05, sustain 0.7, release 0.08
FilledAdsr(instrument) ==
  [ field \in {"attack", "decay", "sustain", "release"} |->
      IF Given(instrument.adsr)[field] # Absent THEN Given(Given(instrument.adsr)[field])
      ELSE CASE field = "attack" -> 5 [] field = "decay" -> 50
             [] field = "sustain" -> 700 [] field = "release" -> 80 ]

\* the event carries gain iff its instrument specified one, and an ADSR iff the
\* instrument defined a parameter of it, then with the omitted ones filled in
CarriesInstrumentFields(event) ==
  LET instrument == GoverningInstrument(event)
  IN  /\ event.gain = instrument.gain
      /\ (event.adsr # Absent) <=> DefinesAdsr(instrument)
      /\ event.adsr # Absent => Given(event.adsr) = FilledAdsr(instrument)

\* C20: every emitted event, whether it comes from a note, a chord or a rest,
\* carries a gain field iff its governing instrument specified gain, and an
\* ADSR field iff that instrument defined at least one ADSR parameter, the
\* omitted sub-fields filled with attack 0.005, decay 0.05, sustain 0.7,
\* release 0.08.
C20_InstrumentFieldsOnEveryEvent ==
  (compilerCall.fn = "compileFromSource" /\ compilerCall.result.error = "") =>
    \A i \in 1..Len(CompiledEvents) : CarriesInstrumentFields(CompiledEvents[i])

\* C30: at all times every index stored in scheduledInCurrentLoop is strictly
\* smaller than nextNoteIndex; the set is empty whenever nextNoteIndex is 0.
C30_ScheduledBelowNextIndex ==
  \A i \in scheduledInCurrentLoop : i < nextNoteIndex

\* past the first wrap of the loop, events of the iteration are in the set
C30_Witness ==
  /\ playing
  /\ currentLoopIteration > 0
  /\ scheduledInCurrentLoop # {}

\* C28: while looping is enabled with loopDurationSec > 0 no tick invokes
\* stop(): a tick leaves playing true, across every loop wrap, also when the
\* event list is empty or every event has t >= loopDurationSec.
C28_LoopNeverEndsItself ==
  [][ (playing /\ Looping) =>
        /\ endedAt' = -1
        /\ clock' # clock => playing'
    ]_vars

\* a session of events that all lie beyond the loop has wrapped and plays on
C28_Witness ==
  /\ playing
  /\ Looping
  /\ currentLoopIteration > 0
  /\ scheduledEvents # << >>
  /\ \A i \in Indices : EventAt(i).t >= loopDurationSec

\* C27: for any interleaving of play(), stop() and restart(), including calls
\* made while an earlier play() waits at its audio-resume step, at most one
\* interval timer is active at any time, and one is active only while playing.
C27_AtMostOneTimer ==
  /\ timers <= 1
  /\ timers > 0 => playing

\* the sources of the program: its sequence, under no track name, and each of
\* its tracks
SourcesOf(program) ==
  (IF program.sequence = Absent THEN {}
   ELSE {[name |-> NoTrack, items |-> Given(program.sequence)]})
  \cup { [name |-> program.tracks[i].name, items |-> program.tracks[i].items] :
           i \in 1..Len(program.tracks) }

\* the length in ms of an item's duration n/d: (n / d) * 4 * (60 / bpm)
LengthOf(item) ==
  (item.duration.numerator * 4 * 60000) \div (item.duration.denominator * parsed.bpm)

\* the time a list of items takes: the sum over its items, a repeat block or
\* pattern use counting its count times the time of its body
RECURSIVE Span(_)
Span(items) ==
  IF items = << >> THEN 0
  ELSE LET item == Head(items)
           own == CASE item.type = "repeat" -> item.count * Span(item.items)
                    [] item.type = "patternUse" ->
                         item.repetitions * Span(BodyOf(item.name, parsed.patterns))
                    [] OTHER -> LengthOf(item)
       IN  own + Span(Tail(items))

\* the <<start, duration>> of the events of notes, rests and chords laid end
\* to end from t: one per note or rest, one per pitch of a chord
RECURSIVE Tiling(_, _)
Tiling(leaves, t) ==
  IF leaves = << >> THEN << >>
  ELSE LET item == Head(leaves)
           k == IF item.type = "chord" THEN Len(item.pitches) ELSE 1
       IN  [ i \in 1..k |-> << t, LengthOf(item) >> ] \o Tiling(Tail(leaves), t + LengthOf(item))

\* the events of the last compilation that belong to a source, in their order
EventsOf(source) == SelectSeq(CompiledEvents, LAMBDA e : e.track = source.name)

\* C29: with swing = 0 the events emitted for one source (the sequence or one
\* track) tile its timeline from 0: every item starts where the item before
\* it ended, the notes of a chord start together, and the source ends at the
\* sum of its item durations, a repeat block or pattern use contributing its
\* count times the duration of its body.
C29_SourcesTile ==
  ( /\ compilerCall.fn = "compileFromSource"
    /\ compilerCall.result.error = ""
    /\ parsed.globalSettings.swing = 0 ) =>
    \A source \in SourcesOf(parsed) :
      LET emitted == EventsOf(source)
      IN  /\ [ i \in 1..Len(emitted) |-> << emitted[i].t, emitted[i].dur >> ]
               = Tiling(Inlined(source.items, parsed.patterns), 0)
          /\ emitted # << >> =>
               emitted[Len(emitted)].t + emitted[Len(emitted)].dur = Span(source.items)

\* without swing, a sequence of pattern uses that hold a chord in a repeat
\* block was compiled next to a track of rests in nested repeat blocks
C29_Witness ==
  /\ compilerCall.fn = "compileFromSource"
  /\ compilerCall.result.error = ""
  /\ parsed.globalSettings.swing = 0
  /\ [name |-> NoTrack, items |-> Uses] \in SourcesOf(parsed)
  /\ [name |-> "a", items |-> Repeats] \in SourcesOf(parsed)
  /\ Span(Uses) > 0
  /\ Len(EventsOf([name |-> "a", items |-> Repeats])) > Len(Repeats)

\* the names of the patterns used among the items, inside repeat blocks too
RECURSIVE UsedIn(_)
UsedIn(items) ==
  IF items = << >> THEN {}
  ELSE LET item == Head(items)
           own == CASE item.type = "patternUse" -> {item.name}
                    [] item.type = "repeat" -> UsedIn(item.items)
                    [] OTHER -> {}
       IN  own \cup UsedIn(Tail(items))

\* the item lists of the program: of its sequence, its tracks and its patterns
ItemListsOf(program) ==
  { source.items : source \in SourcesOf(program) }
  \cup { program.patterns[i].items : i \in 1..Len(program.patterns) }

\* the names the inst directives and the pattern directives define
DefinedInstruments(program) ==
  { program.instruments[i].name : i \in 1..Len(program.instruments) }
DefinedPatterns(program) ==
  { program.patterns[i].name : i \in 1..Len(program.patterns) }

\* a track names an instrument that no inst directive defines
DanglingTrack(program) ==
  \E i \in 1..Len(program.tracks) :
    program.tracks[i].instrumentName \notin DefinedInstruments(program)

\* a use anywhere in the program names a pattern that no directive defines
DanglingUse(program) ==
  \E items \in ItemListsOf(program) : UsedIn(items) \ DefinedPatterns(program) # {}

\* the text holds the part
Contains(text, part) ==
  \E i \in 1..(Len(text) - Len(part) + 1) : SubSeq(text, i, i + Len(part) - 1) = part

\* the text lists every one of the names or, when there is none, says so
ListsNames(text, names, none) ==
  IF names = {} THEN Contains(text, none) ELSE \A name \in names : Contains(text, name)

\* C21: compilation fails whenever a track names an instrument that no inst
\* directive defines, or a use anywhere in the program names a pattern that no
\* pattern directive defines, and the diagnostic lists the instrument
\* (respectively pattern) names that are defined, or states that none are.
C21_DanglingReferencesDiagnosed ==
  ( /\ compilerCall.fn = "compileFromSource"
    /\ DanglingTrack(parsed) \/ DanglingUse(parsed) ) =>
    /\ compilerCall.result.error # ""
    /\ \/ /\ DanglingTrack(parsed)
          /\ ListsNames(compilerCall.result.error, DefinedInstruments(parsed),
                        "No instruments defined")
       \/ /\ DanglingUse(parsed)
          /\ ListsNames(compilerCall.result.error, DefinedPatterns(parsed),
                        "No patterns defined")

\* the patterns a pattern's body uses, as far as they are defined
UsedBy(name, program) ==
  UsedIn(BodyOf(name, program.patterns)) \cap DefinedPatterns(program)

\* the patterns reached from a set of patterns through at most n further uses
RECURSIVE ReachedFrom(_, _, _)
ReachedFrom(names, n, program) ==
  IF n = 0 THEN names
  ELSE ReachedFrom(names \cup UNION { UsedBy(name, program) : name \in names }, n - 1, program)

\* the patterns whose body uses the pattern itself, directly or through a chain
\* of other patterns
OnCycle(program) ==
  { name \in DefinedPatterns(program) :
      name \in ReachedFrom(UsedBy(name, program), Len(program.patterns), program) }

\* C23: compiling a program in which a pattern's body uses that same pattern,
\* directly or through a chain of other patterns, ends with a diagnostic that
\* names a pattern of the cycle, not with the exhaustion of the call stack.
C23_CycleDiagnosed ==
  (compilerCall.fn = "compileFromSource" /\ OnCycle(parsed) # {}) =>
    /\ compilerCall.result.error \notin {"", StackExhausted}
    /\ \E name \in OnCycle(parsed) : Contains(compilerCall.result.error, name)

\* an octave outside 0-9, and a duration with a zero numerator or denominator
OctaveOutOfRange(pitch) == pitch.octave < 0 \/ pitch.octave > 9
ZeroInDuration(duration) == duration.numerator = 0 \/ duration.denominator = 0

\* among the items, inside chords and repeat blocks too, there is a note with
\* such an octave or an item with such a duration
RECURSIVE OutOfRangeIn(_)
OutOfRangeIn(items) ==
  IF items = << >> THEN FALSE
  ELSE LET item == Head(items)
           own == CASE item.type = "note" ->
                         OctaveOutOfRange(item.pitch) \/ ZeroInDuration(item.duration)
                    [] item.type = "rest" -> ZeroInDuration(item.duration)
                    [] item.type = "chord" ->
                         \/ ZeroInDuration(item.duration)
                         \/ \E i \in 1..Len(item.pitches) : OctaveOutOfRange(item.pitches[i])
                    [] item.type = "repeat" -> OutOfRangeIn(item.items)
                    [] OTHER -> FALSE
       IN  own \/ OutOfRangeIn(Tail(items))

\* C25: every program that contains a note whose octave is outside 0-9, or a
\* duration whose numerator or denominator is zero, fails to compile, wherever
\* the item occurs: sequence, track, chord, repeat body or pattern body.
C25_OutOfRangeValuesRejected ==
  ( /\ compilerCall.fn = "compileFromSource"
    /\ \E items \in ItemListsOf(parsed) : OutOfRangeIn(items) ) =>
    compilerCall.result.error # ""

\* the chords among the items, inside repeat blocks too
RECURSIVE ChordsIn(_)
ChordsIn(items) ==
  IF Len(items) = 0 THEN {}
  ELSE LET item == Head(items)
           own == CASE item.type = "chord" -> {item}
                    [] item.type = "repeat" -> ChordsIn(item.items)
                    [] OTHER -> {}
       IN  own \cup ChordsIn(Tail(items))

\* C24: the parser rejects a chord with no pitches, so that every chord of a
\* Program parse() returns, in the sequence, a track or a pattern, has at
\* least one pitch.
C24_ParsedChordsHavePitches ==
  (compilerCall.fn = "safeCompile" /\ compilerCall.ast # Absent) =>
    \A items \in ItemListsOf(Given(compilerCall.ast)) :
      \A chord \in ChordsIn(items) : Len(chord.pitches) >= 1

\* where the words of a text stand, and where the text ends
WordPositions(lines) ==
  LET placed == Placed(lines, Len(lines))
      tokens == tokenize(lines).tokens
  IN  { << placed[i].line, placed[i].column >> : i \in 1..Len(placed) }
      \cup { << tokens[i].line, tokens[i].column >> : i \in 1..Len(tokens) }

\* The tokens at fault in a text that parses to the program but does not
\* compile: a note with an octave outside 0-9; a duration with a zero; a `use`
\* and the name after it if the name is no pattern or a pattern on a cycle; a
\* `track` and the instrument name after its inst= if the name is no instrument
TokensAtFault(tokens, program) ==
  LET n == Len(tokens)
      notes == { i \in 1..n : tokens[i].type = "NOTE"
                               /\ OctaveOutOfRange(tokens[i].read.pitch) }
      durations == { i \in 1..n : tokens[i].type = "DURATION"
                                   /\ ZeroInDuration(tokens[i].read.duration) }
      uses == { i \in 1..n : /\ tokens[i].type = "USE"
                             /\ \/ tokens[i + 1].value \notin DefinedPatterns(program)
                                \/ tokens[i + 1].value \in OnCycle(program) }
      tracks == { i \in 1..n : /\ tokens[i].type = "TRACK"
                               /\ tokens[i + 4].value \notin DefinedInstruments(program) }
  IN  { tokens[i] : i \in notes \cup durations \cup uses }
      \cup { tokens[i + 1] : i \in uses }
      \cup { tokens[i] : i \in tracks } \cup { tokens[i + 4] : i \in tracks }

\* C22: every failure safeCompile reports carries the line and column of the
\* token that caused it: for a failure of the compiler (a value or a reference
\* at fault) those of a token at fault, for a failure of the tokenizer or the
\* parser those of a word of the text or of its end.
C22_FailureAtOffendingToken ==
  (compilerCall.fn = "safeCompile" /\ ~compilerCall.result.success) =>
    LET error == Given(compilerCall.result.error)
    IN  IF compilerCall.stage = "compile"
          THEN \E token \in TokensAtFault(tokenize(compilerCall.source).tokens,
                                          Given(compilerCall.ast)) :
                 error.line = token.line /\ error.column = token.column
        ELSE << error.line, error.column >> \in WordPositions(compilerCall.source)

\* C26: a compilation that fails leaves the successful compilation result the
\* page retained in place; the result stays until a later successful
\* compilation replaces it.
C26_FailureKeepsRetainedResult ==
  [][ ( /\ compilerCall'.fn = "safeCompile"
        /\ sourceText' = sourceText
        /\ ~compilerCall'.result.success
        /\ appState.compilationResult # Absent ) =>
        appState'.compilationResult = appState.compilationResult ]_vars

====
